---- MODULE Spec2Model ----
(***************************************************************************)
(* Model of mcp-hypothesis-tester: the result cache (cache_manager.py),    *)
(* the test execution pipeline (base_test.py) and the test strategies'     *)
(* input validation.                                                       *)
(*                                                                         *)
(* Time is counted in hours.  A float is counted in thousandths (0.05 is   *)
(* 50).  A file path is represented by the test id it is built from.       *)
(***************************************************************************)
EXTENDS Integers, Sequences, FiniteSets, TLC

VARIABLES
    now,        \* the wall clock read by datetime.now(), in hours
    indexFile,  \* cache_dir/index.json
    files,      \* cache_dir/test_results/{test_id}.json : test id -> content
    dataFiles,  \* the test ids whose {test_id}_data.json exists
    index,      \* self.index of each CacheManager object
    lastOp,     \* the last call made and what it returned
    written,    \* history: the payloads cache_result stored and returned a normal id for
    deleted,    \* history: per object, the ids delete_result removed and cache_result has not generated since
    sweeps,     \* history: per object, expiry sweeps in succession with no write and no clock advance (0, 1, 2)
    suggested   \* history: one earlier call of suggest_test, its arguments and its primary_test

vars == <<now, indexFile, files, dataFiles, index, lastOp, written, deleted, sweeps,
          suggested>>

-----------------------------------------------------------------------------
(* Bounds of the model *)

MaxTime == 48       \* the clock stops advancing here
TickHours == 24     \* one clock advance
MaxEntries == 2     \* cache_result is not called on an index that already holds this many entries
MaxRunEntries == 1  \* nor is the pipeline run beside an index that holds this many

(* Program constants *)

ttl_hours == 24

(* The two CacheManager objects attached to the same cache directory: the
   server's module-level object and the one test_cache_manager constructs. *)
cache_manager == "mcp_server.cache_manager"
cache == "test_implementation.cache"
Handles == {cache_manager, cache}

(* id(params): the identities a payload dict can have *)
ObjectIds == {1, 2}

-----------------------------------------------------------------------------
(* Python values and their JSON text (json.dump / json.load) *)

PyFloat(n) == [type |-> "float", num |-> n, str |-> ""]
PyNaN == [type |-> "float", num |-> 0, str |-> "nan"]
PyInt(n) == [type |-> "int", num |-> n, str |-> ""]
PyStr(s) == [type |-> "str", num |-> 0, str |-> s]
PyBool(b) == [type |-> "bool", num |-> IF b THEN 1 ELSE 0, str |-> ""]
PyNone == [type |-> "NoneType", num |-> 0, str |-> ""]
PyDict(s) == [type |-> "dict", num |-> 0, str |-> s]
(* numpy.bool_, the type of a comparison with a numpy float *)
PyNumpyBool(b) == [type |-> "numpy.bool_", num |-> IF b THEN 1 ELSE 0, str |-> ""]

(* The types json.dump can write; any other raises TypeError *)
Serializable(d) ==
    \A k \in DOMAIN d : d[k].type \in {"float", "int", "str", "bool", "NoneType", "dict"}

(* json.dump of one value: the token written.  A float is written with a
   fraction or exponent ("2.0"), an int without; nan is written NaN. *)
json_dump_value(v) ==
    CASE v.type = "float" /\ v.str = "nan" -> [tok |-> "NaN", num |-> 0, str |-> ""]
      [] v.type = "float" -> [tok |-> "number", num |-> v.num, str |-> "."]
      [] v.type = "int" -> [tok |-> "number", num |-> v.num, str |-> ""]
      [] v.type = "str" -> [tok |-> "string", num |-> v.num, str |-> v.str]
      [] v.type = "bool" -> [tok |-> IF v.num = 1 THEN "true" ELSE "false", num |-> 0, str |-> ""]
      [] v.type = "NoneType" -> [tok |-> "null", num |-> 0, str |-> ""]
      [] v.type = "dict" -> [tok |-> "object", num |-> 0, str |-> v.str]

(* json.load of one token *)
json_load_value(t) ==
    CASE t.tok = "NaN" -> PyNaN
      [] t.tok = "number" /\ t.str = "." -> PyFloat(t.num)
      [] t.tok = "number" -> PyInt(t.num)
      [] t.tok = "string" -> [PyStr(t.str) EXCEPT !.num = t.num]
      [] t.tok = "true" -> PyBool(TRUE)
      [] t.tok = "false" -> PyBool(FALSE)
      [] t.tok = "null" -> PyNone
      [] t.tok = "object" -> PyDict(t.str)

json_dump(d) == [k \in DOMAIN d |-> json_dump_value(d[k])]
json_load(doc) == [k \in DOMAIN doc |-> json_load_value(doc[k])]

EmptyDict == [k \in {} |-> PyNone]

(* A file holding a complete JSON document, and one left cut short by a
   failed write *)
FileOf(doc) == [complete |-> TRUE, doc |-> doc]
TruncatedFile == [complete |-> FALSE, doc |-> EmptyDict]

-----------------------------------------------------------------------------
(* Timestamps: datetime.isoformat / datetime.fromisoformat *)

isoformat(t) == [fmt |-> "iso", t |-> t]
UnparsableCreated == [fmt |-> "garbage", t |-> 0]
MissingCreated == [fmt |-> "absent", t |-> 0]

(* fromisoformat(entry["created"]) raises KeyError or ValueError *)
CreatedRaises(entry) == entry.created.fmt # "iso"
fromisoformat(c) == c.t

ttl == ttl_hours

-----------------------------------------------------------------------------
(* Test ids *)

(* sha256 of "{test_type}_{now}_{id(params)}", 16 hex digits: the digest is
   represented by the triple it is computed from. *)
generate_test_id(test_type, t, obj) == <<test_type, t, obj>>

(* f"cache_error_{test_id}" *)
CacheErrorId(test_id) == <<"cache_error", test_id[1], test_id[2], test_id[3]>>
IsSentinel(id) == Len(id) = 4

NoId == <<>>

-----------------------------------------------------------------------------
(* The cache directory as one CacheManager object sees it: its own
   self.index["entries"] and the files every object shares.  The
   "last_cleanup" key of the index is written and never read; it is not
   represented. *)

Restrict(f, S) == [x \in S |-> f[x]]
NoEntries == [x \in {} |-> 0]
NoFiles == [x \in {} |-> TruncatedFile]

World(h) ==
    [entries |-> index[h].entries, indexFile |-> indexFile,
     files |-> files, dataFiles |-> dataFiles]

(* Faults of the file system an operation can meet (IOError / OSError) *)
WriteFaults == {"none", "open_result", "dump_result", "data_file", "save_index"}
DeleteFaults == {"none", "unlink_result", "unlink_data", "save_index"}
SaveFaults == {"none", "save_index"}

(* _save_index: the whole in-memory index replaces the file; an IOError is
   printed and swallowed *)
save_index(W, io) ==
    IF io = "save_index" THEN W
    ELSE [W EXCEPT !.indexFile = [state |-> "ok", entries |-> W.entries]]

(* The exception that leaves __init__ over this index file, or "".
   _load_index catches JSONDecodeError and IOError only: bytes that are not
   text raise UnicodeDecodeError (state "undecodable"); a JSON document
   without the "entries" key is loaded as the index, and _cleanup_expired
   raises KeyError on it (state "no_entries"). *)
init_raises(W) ==
    CASE W.indexFile.state = "undecodable" -> "UnicodeDecodeError"
      [] W.indexFile.state = "no_entries" -> "KeyError"
      [] OTHER -> ""

(* _load_index: an index file that is absent, unreadable or not JSON is
   replaced by an empty index *)
load_index(W, io) ==
    IF W.indexFile.state = "ok"
    THEN [W EXCEPT !.entries = W.indexFile.entries]
    ELSE save_index([W EXCEPT !.entries = NoEntries], io)

(* Mutant: the entry is left in the index *)
delete_result_keeps_entry(W, test_id, io) ==
    IF test_id \notin DOMAIN W.entries THEN W
    ELSE save_index([W EXCEPT !.files = Restrict(@, DOMAIN @ \ {W.entries[test_id].result_file})], io)

(* Mutant: an OSError of unlink ends the call, the entry stays in the index *)
delete_result_gives_up(W, test_id, io) ==
    IF test_id \notin DOMAIN W.entries THEN W
    ELSE IF W.entries[test_id].result_file \in DOMAIN W.files /\ io = "unlink_result"
    THEN W
    ELSE save_index([W EXCEPT !.files = Restrict(@, DOMAIN @ \ {W.entries[test_id].result_file}),
                              !.entries = Restrict(@, DOMAIN @ \ {test_id})], io)

(* delete_result *)
delete_result(W, test_id, io) ==
    IF test_id \notin DOMAIN W.entries THEN W
    ELSE LET entry == W.entries[test_id]
             resultExists == entry.result_file \in DOMAIN W.files
             raised == resultExists /\ io = "unlink_result"
             files1 == IF resultExists /\ ~raised
                       THEN Restrict(W.files, DOMAIN W.files \ {entry.result_file})
                       ELSE W.files
             data1 == IF /\ ~raised
                         /\ entry.has_raw_data /\ entry.data_file # NoId
                         /\ entry.data_file \in W.dataFiles
                         /\ io # "unlink_data"
                      THEN W.dataFiles \ {entry.data_file}
                      ELSE W.dataFiles
             W1 == [W EXCEPT !.files = files1, !.dataFiles = data1,
                             !.entries = Restrict(@, DOMAIN @ \ {test_id})]
         IN  save_index(W1, io)

RECURSIVE DeleteEach(_, _, _)
(* for test_id in ids: self.delete_result(test_id) *)
DeleteEach(W, ids, io) ==
    IF ids = {} THEN W
    ELSE LET test_id == CHOOSE x \in ids : TRUE
         IN  DeleteEach(delete_result(W, test_id, io), ids \ {test_id}, io)

(* Mutant: an entry whose age equals the time-to-live is expired too *)
IsExpired_at_ttl(entry, current_time) ==
    \/ CreatedRaises(entry)
    \/ current_time - fromisoformat(entry.created) >= ttl

(* The test of _cleanup_expired's loop: the timestamp does not parse, or
   current_time - created > self.ttl *)
IsExpired(entry, current_time) ==
    \/ CreatedRaises(entry)
    \/ current_time - fromisoformat(entry.created) > ttl

(* Mutant: the sweep stops after the first expired entry *)
cleanup_expired_first_only(W, current_time, io) ==
    LET expired_ids == {id \in DOMAIN W.entries : IsExpired(W.entries[id], current_time)}
    IN  IF expired_ids = {} THEN save_index(W, io)
        ELSE save_index(delete_result(W, CHOOSE x \in expired_ids : TRUE, io), io)

(* _cleanup_expired *)
cleanup_expired(W, current_time, io) ==
    LET expired_ids == {id \in DOMAIN W.entries : IsExpired(W.entries[id], current_time)}
    IN  save_index(DeleteEach(W, expired_ids, io), io)

(* CacheManager.__init__ *)
construct(W, current_time, io) == cleanup_expired(load_index(W, io), current_time, io)

(* raw_data arguments of cache_result: None, an empty dict, a data summary *)
RawValues == {"None", "empty", "summary"}
Truthy(raw_data) == raw_data = "summary"

(* cache_result: the world after the call and the identifier returned, or
   the exception that leaves it: only IOError and OSError are caught, the
   TypeError of json.dump on a value it cannot write is not *)
cache_result(W, test_type, test_result, raw_data, obj, current_time, io) ==
    LET test_id == generate_test_id(test_type, current_time, obj)
        written1 == [W EXCEPT !.files = (test_id :> FileOf(json_dump(test_result))) @@ @]
        written2 == IF Truthy(raw_data)
                    THEN [written1 EXCEPT !.dataFiles = @ \cup {test_id}]
                    ELSE written1
        entry == [test_type |-> test_type,
                  created |-> isoformat(current_time),
                  has_raw_data |-> raw_data # "None",
                  result_file |-> test_id,
                  data_file |-> IF Truthy(raw_data) THEN test_id ELSE NoId]
    IN  CASE io = "open_result" ->
               [W |-> W, ret |-> CacheErrorId(test_id), raises |-> ""]
          [] ~Serializable(test_result) ->
               [W |-> [W EXCEPT !.files = (test_id :> TruncatedFile) @@ @],
                ret |-> NoId, raises |-> "TypeError"]
          [] io = "dump_result" ->
               [W |-> [W EXCEPT !.files = (test_id :> TruncatedFile) @@ @],
                ret |-> CacheErrorId(test_id), raises |-> ""]
          [] io = "data_file" /\ Truthy(raw_data) ->
               [W |-> written1, ret |-> CacheErrorId(test_id), raises |-> ""]
          [] OTHER ->
               [W |-> save_index([written2 EXCEPT !.entries = (test_id :> entry) @@ @], io),
                ret |-> test_id, raises |-> ""]

NotFound == [found |-> FALSE, result |-> EmptyDict, raises |-> ""]
Found(result) == [found |-> TRUE, result |-> result, raises |-> ""]
Raised(exception) == [found |-> FALSE, result |-> EmptyDict, raises |-> exception]

(* An index entry read from index.json that has no "result_file" key *)
MissingKey == <<"KeyError">>

(* get_result: None (not found), the loaded result, or the exception that
   leaves it: only IOError and JSONDecodeError are caught *)
get_result(W, test_id, include_raw_data) ==
    IF test_id \notin DOMAIN W.entries THEN NotFound
    ELSE LET entry == W.entries[test_id]
         IN  IF entry.result_file = MissingKey THEN Raised("KeyError")
             ELSE IF entry.result_file \notin DOMAIN W.files THEN NotFound
             ELSE IF ~W.files[entry.result_file].complete THEN NotFound
             ELSE LET result == json_load(W.files[entry.result_file].doc)
                  IN  IF /\ include_raw_data
                         /\ entry.has_raw_data /\ entry.data_file # NoId
                         /\ entry.data_file \in W.dataFiles
                      THEN Found(("raw_data" :> PyDict("raw_data")) @@ result)
                      ELSE Found(result)

list_cached_tests_oldest_first(W) ==
    LET ids == DOMAIN W.entries
        n == Cardinality(ids)
        order == CHOOSE s \in [1..n -> ids] :
                    /\ \A x \in ids : \E i \in 1..n : s[i] = x
                    /\ \A i, j \in 1..n :
                          i < j => W.entries[s[i]].created.t <= W.entries[s[j]].created.t
    IN  [i \in 1..n |->
            [test_id |-> order[i],
             test_type |-> W.entries[order[i]].test_type,
             created |-> W.entries[order[i]].created,
             has_raw_data |-> W.entries[order[i]].has_raw_data]]

(* list_cached_tests: sorted(tests, key=created, reverse=True).  Entries with
   equal keys keep the index's insertion order, which is not represented:
   any order of them is chosen. *)
list_cached_tests(W) ==
    LET ids == DOMAIN W.entries
        n == Cardinality(ids)
        order == CHOOSE s \in [1..n -> ids] :
                    /\ \A x \in ids : \E i \in 1..n : s[i] = x
                    /\ \A i, j \in 1..n :
                          i < j => W.entries[s[i]].created.t >= W.entries[s[j]].created.t
    IN  [i \in 1..n |->
            [test_id |-> order[i],
             test_type |-> W.entries[order[i]].test_type,
             created |-> W.entries[order[i]].created,
             has_raw_data |-> W.entries[order[i]].has_raw_data]]

(* clear_all *)
clear_all(W, io) == DeleteEach(W, DOMAIN W.entries, io)

-----------------------------------------------------------------------------
(* What callers pass to the cache *)

(* test_cache_manager's payload, and a second one of the same shape *)
Payloads ==
    {[test_name |-> PyStr("Test"), p_value |-> PyFloat(42), decision |-> PyStr("reject")],
     [test_name |-> PyStr("Test"), p_value |-> PyFloat(80), decision |-> PyStr("fail_to_reject")]}

CacheTypes == {"test_type"}

(* An entry found in the index file of an earlier process: written at hour
   0, or with a creation timestamp that is missing or does not parse *)
LegacyId == generate_test_id("test_type", 0, 1)
LegacyEntry(created) ==
    [test_type |-> "test_type", created |-> created, has_raw_data |-> FALSE,
     result_file |-> LegacyId, data_file |-> NoId]
LegacyPayload == CHOOSE d \in Payloads : d.p_value = PyFloat(42)

InitialStorages ==
    {[indexFile |-> [state |-> "absent", entries |-> NoEntries], files |-> NoFiles]}
    \cup
    {[indexFile |-> [state |-> "ok", entries |-> (LegacyId :> LegacyEntry(c))],
      files |-> (LegacyId :> FileOf(json_dump(LegacyPayload)))]
       : c \in {isoformat(0), UnparsableCreated, MissingCreated}}

(* What a call of BaseHypothesisTest.run leaves: nothing yet *)
NoRun == [test_type |-> "", args |-> <<>>, alpha |-> PyNone, valid |-> FALSE,
          outcome |-> "", message |-> <<>>, steps |-> <<>>, result |-> <<>>]

(* What a call of one of the server's tools leaves: nothing yet *)
NoTool == [test_type |-> "", dataset |-> "", response |-> <<>>, persisted |-> ""]

(* What a call of suggest_test leaves: its arguments, what the library finds
   in the data, the exception of the suggester, the characteristics and the
   suggestion; nothing yet *)
NoAdvice == [data_groups |-> <<>>, kwargs |-> <<>>, lib |-> <<>>, raises |-> "",
             chars |-> <<>>, suggestion |-> <<>>]

(* No call of suggest_test is remembered *)
NoneSuggested == [asked |-> FALSE, data_groups |-> <<>>, kwargs |-> <<>>, lib |-> <<>>,
                  primary_test |-> "", cached |-> {}]

NoOp == [op |-> "none", h |-> "", id |-> NoId, ret |-> NotFound, tests |-> <<>>,
         run |-> NoRun, tool |-> NoTool, raises |-> "", advice |-> NoAdvice]
Op(name, h, id, ret, tests) ==
    [op |-> name, h |-> h, id |-> id, ret |-> ret, tests |-> tests,
     run |-> NoRun, tool |-> NoTool, raises |-> "", advice |-> NoAdvice]
(* a call that an exception leaves *)
Failed(name, h, exception) ==
    [Op(name, h, NoId, NotFound, <<>>) EXCEPT !.raises = exception]

NotConstructed == [up |-> FALSE, entries |-> NoEntries]

(* The cache directories the server can find at start: none, one whose
   index holds an entry without "result_file", and index files that are not
   JSON, not text, or JSON without "entries" *)
ServerStorages ==
    {[indexFile |-> [state |-> "absent", entries |-> NoEntries], files |-> NoFiles],
     [indexFile |-> [state |-> "ok",
                     entries |-> (LegacyId :> [LegacyEntry(isoformat(0))
                                                 EXCEPT !.result_file = MissingKey])],
      files |-> NoFiles]}
    \cup
    {[indexFile |-> [state |-> st, entries |-> NoEntries], files |-> NoFiles]
       : st \in {"invalid_json", "undecodable", "no_entries"}}

InitIn(Storages) ==
    /\ now = 0
    /\ \E st \in Storages :
          /\ indexFile = st.indexFile
          /\ files = st.files
    /\ dataFiles = {}
    /\ index = [h \in Handles |-> NotConstructed]
    /\ lastOp = NoOp
    /\ suggested = NoneSuggested
    /\ written = {}
    /\ deleted = [h \in Handles |-> {}]
    /\ sweeps = [h \in Handles |-> 0]

Init == InitIn(InitialStorages)

(* The world after a call on object h becomes the state *)
Install(h, W) ==
    /\ index' = [index EXCEPT ![h] = [up |-> TRUE, entries |-> W.entries]]
    /\ indexFile' = W.indexFile
    /\ files' = W.files
    /\ dataFiles' = W.dataFiles

(* History of a call on object h that called delete_result on the cached
   ids `gone` *)
NoteDeleted(h, gone) ==
    /\ written' = {w \in written : w.id \notin gone}
    /\ deleted' = [deleted EXCEPT ![h] = @ \cup gone]

-----------------------------------------------------------------------------
(* Operations *)

(* The clock advances *)
Tick ==
    /\ UNCHANGED suggested
    /\ now + TickHours <= MaxTime
    /\ now' = now + TickHours
    /\ lastOp' = Op("tick", "", NoId, NotFound, <<>>)
    /\ sweeps' = [h \in Handles |-> 0]
    /\ UNCHANGED <<indexFile, files, dataFiles, index, written, deleted>>

(* CacheManager(): a new object attaches to the directory *)
Construct(h, Faults) ==
    /\ UNCHANGED suggested
    /\ \E io \in Faults :
        LET W == construct(World(h), now, io)
            loaded == load_index(World(h), io).entries
            gone == {id \in DOMAIN loaded : IsExpired(loaded[id], now)}
        IN  IF init_raises(World(h)) # ""
            THEN /\ lastOp' = Failed("__init__", h, init_raises(World(h)))
                 /\ index' = [index EXCEPT ![h] = NotConstructed]
                 /\ UNCHANGED <<now, indexFile, files, dataFiles, written, deleted, sweeps>>
            ELSE /\ Install(h, W)
                 /\ written' = {w \in written : w.id \notin gone}
                 /\ deleted' = [deleted EXCEPT ![h] = gone]
                 /\ sweeps' = [sweeps EXCEPT ![h] = 1]
                 /\ lastOp' = Op("__init__", h, NoId, NotFound, <<>>)
                 /\ UNCHANGED now

(* cache_result(test_type, test_result, raw_data) on object h *)
CacheResult(h, Pays, Objs, Raws, Faults) ==
    /\ UNCHANGED suggested
    /\ index[h].up
    /\ Cardinality(DOMAIN index[h].entries) < MaxEntries
    /\ \E test_type \in CacheTypes, test_result \in Pays, raw_data \in Raws,
          obj \in Objs, io \in Faults :
          LET r == cache_result(World(h), test_type, test_result, raw_data, obj, now, io)
          IN  /\ Install(h, r.W)
              /\ lastOp' = Op("cache_result", h, r.ret, NotFound, <<>>)
              /\ written' = IF IsSentinel(r.ret) \/ r.raises # "" THEN written
                            ELSE written \cup {[id |-> r.ret, payload |-> test_result,
                                                saved |-> io # "save_index"]}
              /\ deleted' = [deleted EXCEPT ![h] = @ \ {r.ret}]
              /\ sweeps' = [sweeps EXCEPT ![h] = 0]
              /\ UNCHANGED now

(* The identifiers a caller can hold: those of the index, of the files, and
   one that was never generated *)
KnownIds(h) == DOMAIN index[h].entries \cup DOMAIN files \cup deleted[h]
                 \cup {generate_test_id("test_type", MaxTime + 1, 1)}

(* get_result(test_id, include_raw_data) on object h *)
GetResult(h) ==
    /\ UNCHANGED suggested
    /\ index[h].up
    /\ \E test_id \in KnownIds(h), include_raw_data \in BOOLEAN :
          /\ lastOp' = [Op("get_result", h, test_id,
                           get_result(World(h), test_id, include_raw_data), <<>>)
                         EXCEPT !.raises =
                             get_result(World(h), test_id, include_raw_data).raises]
          /\ sweeps' = [sweeps EXCEPT ![h] = 0]
          /\ UNCHANGED <<now, indexFile, files, dataFiles, index, written, deleted>>

(* delete_result(test_id) on object h *)
DeleteResult(h, Faults) ==
    /\ UNCHANGED suggested
    /\ index[h].up
    /\ \E test_id \in KnownIds(h), io \in Faults :
          LET W == delete_result(World(h), test_id, io)
          IN  /\ Install(h, W)
              /\ NoteDeleted(h, {test_id} \cap DOMAIN index[h].entries)
              /\ lastOp' = Op("delete_result", h, test_id, NotFound, <<>>)
              /\ sweeps' = [sweeps EXCEPT ![h] = 0]
              /\ UNCHANGED now

(* list_cached_tests() on object h *)
ListCachedTests(h) ==
    /\ UNCHANGED suggested
    /\ index[h].up
    /\ lastOp' = Op("list_cached_tests", h, NoId, NotFound, list_cached_tests(World(h)))
    /\ sweeps' = [sweeps EXCEPT ![h] = 0]
    /\ UNCHANGED <<now, indexFile, files, dataFiles, index, written, deleted>>

(* clear_all() on object h *)
ClearAll(h, Faults) ==
    /\ UNCHANGED suggested
    /\ index[h].up
    /\ \E io \in Faults :
          LET W == clear_all(World(h), io)
          IN  /\ Install(h, W)
              /\ NoteDeleted(h, DOMAIN index[h].entries)
              /\ lastOp' = Op("clear_all", h, NoId, NotFound, <<>>)
              /\ sweeps' = [sweeps EXCEPT ![h] = 0]
              /\ UNCHANGED now

(* _cleanup_expired() on object h, run again after construction *)
CleanupExpired(h, Faults) ==
    /\ UNCHANGED suggested
    /\ index[h].up
    /\ \E io \in Faults :
          LET W == cleanup_expired(World(h), now, io)
          IN  /\ Install(h, W)
              /\ NoteDeleted(h, {id \in DOMAIN index[h].entries :
                                     IsExpired(index[h].entries[id], now)})
              /\ lastOp' = Op("_cleanup_expired", h, NoId, NotFound, <<>>)
              /\ sweeps' = [sweeps EXCEPT ![h] = IF @ = 0 THEN 1 ELSE 2]
              /\ UNCHANGED now

-----------------------------------------------------------------------------
(* Test strategies.  A sample is represented by its length and whether it
   contains a NaN; the arguments of a call are a sequence of samples. *)

Sample(n, nan) == [len |-> n, nan |-> nan]

TEST_REGISTRY ==
    {"one_sample_t_test", "two_sample_t_test", "paired_t_test", "one_way_anova",
     "mann_whitney_u", "wilcoxon_signed_rank", "kruskal_wallis",
     "shapiro_wilk", "kolmogorov_smirnov", "anderson_darling", "jarque_bera",
     "levene", "bartlett", "f_test_variance"}

(* The number of positional parameters of validate_input after self; 0 for
   *groups *)
Parameters(test_type) ==
    CASE test_type \in {"one_sample_t_test", "shapiro_wilk", "kolmogorov_smirnov",
                        "anderson_darling", "jarque_bera"} -> 1
      [] test_type \in {"two_sample_t_test", "paired_t_test", "mann_whitney_u",
                        "wilcoxon_signed_rank", "f_test_variance"} -> 2
      [] OTHER -> 0

(* Calling validate_input with the wrong number of arguments is a TypeError *)
ArgumentCountFits(test_type, args) ==
    Parameters(test_type) = 0 \/ Len(args) = Parameters(test_type)

(* not np.any(np.isnan(data)) *)
NoNaN(data) == ~data.nan

OneSampleTTest_validate_input(data) == data.len > 1 /\ NoNaN(data)

TwoSampleTTest_validate_input(group1, group2) ==
    group1.len > 1 /\ group2.len > 1 /\ NoNaN(group1) /\ NoNaN(group2)

(* Mutant: the lengths of before and after are not compared *)
PairedTTest_validate_input_no_length_check(before, after) ==
    before.len > 1 /\ NoNaN(before) /\ NoNaN(after)

PairedTTest_validate_input(before, after) ==
    before.len = after.len /\ before.len > 1 /\ NoNaN(before) /\ NoNaN(after)

OneWayANOVA_validate_input(groups) ==
    IF Len(groups) < 2 THEN FALSE
    ELSE \A i \in DOMAIN groups : ~(groups[i].len < 2 \/ groups[i].nan)

MannWhitneyUTest_validate_input(group1, group2) ==
    group1.len > 0 /\ group2.len > 0 /\ NoNaN(group1) /\ NoNaN(group2)

WilcoxonSignedRankTest_validate_input(before, after) ==
    before.len = after.len /\ before.len > 0 /\ NoNaN(before) /\ NoNaN(after)

KruskalWallisTest_validate_input(groups) ==
    IF Len(groups) < 2 THEN FALSE
    ELSE \A i \in DOMAIN groups : ~(groups[i].len < 1 \/ groups[i].nan)

ShapiroWilkTest_validate_input(data) == data.len >= 3 /\ data.len <= 5000 /\ NoNaN(data)

KolmogorovSmirnovTest_validate_input(data) == data.len >= 5 /\ NoNaN(data)

AndersonDarlingTest_validate_input(data) == data.len >= 7 /\ NoNaN(data)

JarqueBeraTest_validate_input(data) == data.len >= 7 /\ NoNaN(data)

LeveneTest_validate_input(groups) ==
    IF Len(groups) < 2 THEN FALSE
    ELSE \A i \in DOMAIN groups : ~(groups[i].len < 2 \/ groups[i].nan)

BartlettTest_validate_input(groups) ==
    IF Len(groups) < 2 THEN FALSE
    ELSE \A i \in DOMAIN groups : ~(groups[i].len < 2 \/ groups[i].nan)

FTestVariance_validate_input(group1, group2) ==
    group1.len >= 2 /\ group2.len >= 2 /\ NoNaN(group1) /\ NoNaN(group2)

(* self.validate_input on the arguments of run, dispatched on the strategy's class *)
validate_input(test_type, args) ==
    CASE test_type = "one_sample_t_test" -> OneSampleTTest_validate_input(args[1])
      [] test_type = "two_sample_t_test" -> TwoSampleTTest_validate_input(args[1], args[2])
      [] test_type = "paired_t_test" -> PairedTTest_validate_input(args[1], args[2])
      [] test_type = "one_way_anova" -> OneWayANOVA_validate_input(args)
      [] test_type = "mann_whitney_u" -> MannWhitneyUTest_validate_input(args[1], args[2])
      [] test_type = "wilcoxon_signed_rank" ->
            WilcoxonSignedRankTest_validate_input(args[1], args[2])
      [] test_type = "kruskal_wallis" -> KruskalWallisTest_validate_input(args)
      [] test_type = "shapiro_wilk" -> ShapiroWilkTest_validate_input(args[1])
      [] test_type = "kolmogorov_smirnov" -> KolmogorovSmirnovTest_validate_input(args[1])
      [] test_type = "anderson_darling" -> AndersonDarlingTest_validate_input(args[1])
      [] test_type = "jarque_bera" -> JarqueBeraTest_validate_input(args[1])
      [] test_type = "levene" -> LeveneTest_validate_input(args)
      [] test_type = "bartlett" -> BartlettTest_validate_input(args)
      [] test_type = "f_test_variance" -> FTestVariance_validate_input(args[1], args[2])

-----------------------------------------------------------------------------
(* The test execution pipeline: BaseHypothesisTest.run *)

(* Mutant: p_value <= self.alpha *)
FloatLessOrEqual(a, b) == a.str # "nan" /\ b.str # "nan" /\ a.num <= b.num

(* a < b on floats; every comparison with nan is False *)
FloatLess(a, b) == a.str # "nan" /\ b.str # "nan" /\ a.num < b.num

NoResult == <<>>

(* check_assumptions: the type of the values of the dict it returns.  The
   strategies that compare the p-value of stats.levene with 0.05 always hold
   a numpy.bool_; those that compare only the p-value of stats.shapiro hold
   one when that p-value is a numpy float and the comparison decides the
   entry (lib.shapiro_numpy); the others compute their entries from len(). *)
check_assumptions(test_type, lib) ==
    IF test_type \in {"two_sample_t_test", "one_way_anova"}
    THEN [values |-> "numpy.bool_"]
    ELSE IF test_type \in {"one_sample_t_test", "paired_t_test", "f_test_variance"}
            /\ lib.shapiro_numpy
    THEN [values |-> "numpy.bool_"]
    ELSE [values |-> "bool"]

(* The dict check_assumptions returns, in insertion order: the entries are
   (name, value) pairs.  `lib` is what the statistical library finds in the
   samples: lib.shapiro[i] is the p-value of stats.shapiro on the i-th sample,
   lib.levene the p-value of stats.levene, lib.zero_differences the number of
   pairs whose difference is 0.  0.05 is PyFloat(50). *)
Assumption(name, value) == [name |-> name, value |-> value]

(* a > b on floats; every comparison with nan is False *)
FloatGreater(a, b) == FloatLess(b, a)

(* stats.shapiro(group)[1] if len(group) < 5000 else 1 *)
shapiro_unless_large(args, i, lib) == IF args[i].len < 5000 THEN lib.shapiro[i] ELSE PyFloat(1000)

OneSampleTTest_check_assumptions(args, lib) ==
    LET is_normal == IF args[1].len < 5000 THEN FloatGreater(lib.shapiro[1], PyFloat(50))
                     ELSE TRUE
    IN  <<Assumption("normality", is_normal \/ args[1].len > 30),
          Assumption("independence", TRUE),
          Assumption("sufficient_sample_size", args[1].len >= 2)>>

TwoSampleTTest_check_assumptions(args, lib) ==
    <<Assumption("group1_normality",
                 FloatGreater(shapiro_unless_large(args, 1, lib), PyFloat(50))
                 \/ args[1].len > 30),
      Assumption("group2_normality",
                 FloatGreater(shapiro_unless_large(args, 2, lib), PyFloat(50))
                 \/ args[2].len > 30),
      Assumption("equal_variances", FloatGreater(lib.levene, PyFloat(50))),
      Assumption("independence", TRUE)>>

PairedTTest_check_assumptions(args, lib) ==
    <<Assumption("differences_normality",
                 FloatGreater(shapiro_unless_large(args, 1, lib), PyFloat(50))
                 \/ args[1].len > 30),
      Assumption("paired_data", args[1].len = args[2].len),
      Assumption("independence", TRUE)>>

OneWayANOVA_check_assumptions(args, lib) ==
    LET all_normal == \A i \in DOMAIN args :
                         ~(/\ args[i].len < 5000
                           /\ FloatLessOrEqual(lib.shapiro[i], PyFloat(50))
                           /\ args[i].len <= 30)
    IN  <<Assumption("independence", TRUE),
          Assumption("sufficient_groups", Len(args) >= 2),
          Assumption("normality", all_normal),
          Assumption("equal_variances",
                     IF Len(args) >= 2 THEN FloatGreater(lib.levene, PyFloat(50)) ELSE TRUE)>>

MannWhitneyUTest_check_assumptions(args, lib) ==
    <<Assumption("independence", TRUE),
      Assumption("ordinal_or_continuous", TRUE),
      Assumption("sufficient_sample_size", args[1].len >= 3 /\ args[2].len >= 3)>>

WilcoxonSignedRankTest_check_assumptions(args, lib) ==
    LET non_zero_diffs == IF lib.zero_differences < args[1].len
                          THEN args[1].len - lib.zero_differences ELSE 0
    IN  <<Assumption("paired_data", args[1].len = args[2].len),
          Assumption("ordinal_or_continuous", TRUE),
          Assumption("sufficient_non_zero_differences", non_zero_diffs >= 5)>>

KruskalWallisTest_check_assumptions(args, lib) ==
    <<Assumption("independence", TRUE),
      Assumption("ordinal_or_continuous", TRUE),
      Assumption("sufficient_groups", Len(args) >= 2),
      Assumption("sufficient_sample_size", \A i \in DOMAIN args : args[i].len >= 5)>>

ShapiroWilkTest_check_assumptions(args, lib) ==
    <<Assumption("sufficient_sample_size", 3 <= args[1].len /\ args[1].len <= 5000),
      Assumption("no_missing_values", NoNaN(args[1]))>>

KolmogorovSmirnovTest_check_assumptions(args, lib) ==
    <<Assumption("sufficient_sample_size", args[1].len >= 5),
      Assumption("continuous_data", TRUE)>>

AndersonDarlingTest_check_assumptions(args, lib) ==
    <<Assumption("sufficient_sample_size", args[1].len >= 7),
      Assumption("continuous_data", TRUE)>>

JarqueBeraTest_check_assumptions(args, lib) ==
    <<Assumption("sufficient_sample_size", args[1].len >= 7),
      Assumption("works_best_large_n", args[1].len > 2000)>>

LeveneTest_check_assumptions(args, lib) ==
    <<Assumption("sufficient_groups", Len(args) >= 2),
      Assumption("sufficient_sample_size", \A i \in DOMAIN args : args[i].len >= 2),
      Assumption("continuous_data", TRUE)>>

BartlettTest_check_assumptions(args, lib) ==
    LET all_normal == \A i \in DOMAIN args :
                         ~(/\ args[i].len < 5000
                           /\ FloatLessOrEqual(lib.shapiro[i], PyFloat(50)))
    IN  <<Assumption("sufficient_groups", Len(args) >= 2),
          Assumption("sufficient_sample_size", \A i \in DOMAIN args : args[i].len >= 2),
          Assumption("normality", all_normal)>>

FTestVariance_check_assumptions(args, lib) ==
    <<Assumption("group1_normality",
                 FloatGreater(shapiro_unless_large(args, 1, lib), PyFloat(50))),
      Assumption("group2_normality",
                 FloatGreater(shapiro_unless_large(args, 2, lib), PyFloat(50))),
      Assumption("sufficient_sample_size", args[1].len >= 2 /\ args[2].len >= 2)>>

(* self.check_assumptions on the arguments of run, dispatched on the strategy's class *)
assumptions_dict(test_type, args, lib) ==
    CASE test_type = "one_sample_t_test" -> OneSampleTTest_check_assumptions(args, lib)
      [] test_type = "two_sample_t_test" -> TwoSampleTTest_check_assumptions(args, lib)
      [] test_type = "paired_t_test" -> PairedTTest_check_assumptions(args, lib)
      [] test_type = "one_way_anova" -> OneWayANOVA_check_assumptions(args, lib)
      [] test_type = "mann_whitney_u" -> MannWhitneyUTest_check_assumptions(args, lib)
      [] test_type = "wilcoxon_signed_rank" ->
            WilcoxonSignedRankTest_check_assumptions(args, lib)
      [] test_type = "kruskal_wallis" -> KruskalWallisTest_check_assumptions(args, lib)
      [] test_type = "shapiro_wilk" -> ShapiroWilkTest_check_assumptions(args, lib)
      [] test_type = "kolmogorov_smirnov" -> KolmogorovSmirnovTest_check_assumptions(args, lib)
      [] test_type = "anderson_darling" -> AndersonDarlingTest_check_assumptions(args, lib)
      [] test_type = "jarque_bera" -> JarqueBeraTest_check_assumptions(args, lib)
      [] test_type = "levene" -> LeveneTest_check_assumptions(args, lib)
      [] test_type = "bartlett" -> BartlettTest_check_assumptions(args, lib)
      [] test_type = "f_test_variance" -> FTestVariance_check_assumptions(args, lib)

(* [k for k, v in assumptions.items() if not v] *)
IsUnmet(assumption) == ~assumption.value
unmet_assumptions(assumptions) ==
    LET unmet == SelectSeq(assumptions, IsUnmet)
    IN  [i \in DOMAIN unmet |-> unmet[i].name]

(* assumptions.get(name, True) *)
assumptions_get(assumptions, name) ==
    \A i \in DOMAIN assumptions : assumptions[i].name = name => assumptions[i].value

(* A recommendation is a text: the sequence of its sentences, each with the
   names it lists *)
Sentence(text, names) == [text |-> text, names |-> names]

(* Mutant: the recommendation never carries the warning *)
BaseHypothesisTest_generate_recommendation_silent(decision, assumptions) ==
    IF decision = "reject"
    THEN <<Sentence("Evidence suggests a significant effect.", <<>>)>>
    ELSE <<Sentence("Insufficient evidence to conclude an effect.", <<>>)>>

BaseHypothesisTest_generate_recommendation(decision, assumptions) ==
    LET unmet == unmet_assumptions(assumptions)
        warning == IF unmet # <<>>
                   THEN <<Sentence("WARNING: Assumptions not met", unmet),
                          Sentence("Consider non-parametric alternatives.", <<>>)>>
                   ELSE <<>>
    IN  IF decision = "reject"
        THEN <<Sentence("Evidence suggests a significant effect.", <<>>)>> \o warning
        ELSE <<Sentence("Insufficient evidence to conclude an effect.", <<>>)>> \o warning

OneWayANOVA_generate_recommendation(decision, assumptions) ==
    BaseHypothesisTest_generate_recommendation(decision, assumptions)
    \o (IF decision = "reject"
        THEN <<Sentence("Consider post-hoc tests (Tukey HSD, Bonferroni)", <<>>)>>
        ELSE <<>>)
    \o (IF ~assumptions_get(assumptions, "equal_variances")
        THEN <<Sentence("WARNING: Equal variance assumption violated.", <<>>)>>
        ELSE <<>>)

KruskalWallisTest_generate_recommendation(decision, assumptions) ==
    BaseHypothesisTest_generate_recommendation(decision, assumptions)
    \o (IF decision = "reject"
        THEN <<Sentence("Consider post-hoc pairwise comparisons (Dunn's test)", <<>>)>>
        ELSE <<>>)

ShapiroWilkTest_generate_recommendation(decision, assumptions) ==
    IF decision = "reject"
    THEN <<Sentence("Data violates normality assumption.", <<>>)>>
    ELSE <<Sentence("Data meets normality assumption.", <<>>)>>

LeveneTest_generate_recommendation(decision, assumptions) ==
    IF decision = "reject"
    THEN <<Sentence("Variances differ significantly.", <<>>)>>
    ELSE <<Sentence("Equal variance assumption met.", <<>>)>>

BartlettTest_generate_recommendation(decision, assumptions) ==
    (IF ~assumptions_get(assumptions, "normality")
     THEN <<Sentence("WARNING: Bartlett's test requires normality.", <<>>)>>
     ELSE <<>>)
    \o BaseHypothesisTest_generate_recommendation(decision, assumptions)

FTestVariance_generate_recommendation(decision, assumptions) ==
    (IF ~assumptions_get(assumptions, "group1_normality")
        \/ ~assumptions_get(assumptions, "group2_normality")
     THEN <<Sentence("WARNING: F-test requires normality.", <<>>)>>
     ELSE <<>>)
    \o BaseHypothesisTest_generate_recommendation(decision, assumptions)

(* self.generate_recommendation, dispatched on the strategy's class *)
generate_recommendation(test_type, decision, assumptions) ==
    CASE test_type = "one_way_anova" -> OneWayANOVA_generate_recommendation(decision, assumptions)
      [] test_type = "kruskal_wallis" ->
            KruskalWallisTest_generate_recommendation(decision, assumptions)
      [] test_type = "shapiro_wilk" ->
            ShapiroWilkTest_generate_recommendation(decision, assumptions)
      [] test_type = "levene" -> LeveneTest_generate_recommendation(decision, assumptions)
      [] test_type = "bartlett" -> BartlettTest_generate_recommendation(decision, assumptions)
      [] test_type = "f_test_variance" ->
            FTestVariance_generate_recommendation(decision, assumptions)
      [] OTHER -> BaseHypothesisTest_generate_recommendation(decision, assumptions)

StepsBeforeCache ==
    <<"validate_input", "check_assumptions", "compute_statistic", "decide",
      "interpret_result", "generate_recommendation", "calculate_effect_size",
      "calculate_confidence_interval">>

(* What run leaves: how it ended, the steps it executed, the TestResult,
   the cache directory *)
Ran(outcome, valid, message, steps, result, W) ==
    [outcome |-> outcome, valid |-> valid, message |-> message, steps |-> steps,
     result |-> result, W |-> W]

(* warnings if warnings else None *)
warnings_or_None(warnings) ==
    IF warnings # <<>> THEN [none |-> FALSE, names |-> warnings]
    ELSE [none |-> TRUE, names |-> <<>>]

(* Steps 4, 5 and 9 of run: the decision, the recommendation and the
   TestResult, from what the earlier steps computed *)
TestResult(test_type, statistic, p_value, alpha, lib, assumptions, cache_id) ==
    [test_type |-> test_type, statistic |-> statistic, p_value |-> p_value,
     alpha |-> alpha, significant |-> FloatLess(p_value, alpha),
     decision |-> IF FloatLess(p_value, alpha) THEN "reject" ELSE "fail_to_reject",
     assumptions_met |-> check_assumptions(test_type, lib),
     assumptions |-> assumptions,
     recommendation |->
         generate_recommendation(test_type,
                                 IF FloatLess(p_value, alpha) THEN "reject"
                                 ELSE "fail_to_reject",
                                 assumptions),
     warnings |-> warnings_or_None(unmet_assumptions(assumptions)),
     cache_id |-> cache_id]

(* Steps 2 to 9 of run.  `lib` is what the statistical library does: it
   returns (statistic, p_value) or raises in check_assumptions or in
   compute_statistic.  `attached` says whether self.cache_manager is set. *)
run_from_step_2(test_type, alpha, args, lib, attached, W, obj, current_time, io) ==
    IF lib.raises = "check_assumptions"
    THEN Ran("LibraryError", TRUE, <<>>, SubSeq(StepsBeforeCache, 1, 2), NoResult, W)
    ELSE IF lib.raises = "compute_statistic"
    THEN Ran("LibraryError", TRUE, <<>>, SubSeq(StepsBeforeCache, 1, 3), NoResult, W)
    ELSE
      LET statistic == lib.statistic
          p_value == lib.p_value
          \* cache_detailed_results: kwargs holds statistic and p_value
          kwargs == [statistic |-> statistic, p_value |-> p_value]
          cached == IF attached
                    THEN cache_result(W, test_type, kwargs, "None", obj, current_time, io)
                    ELSE [W |-> W, ret |-> NoId, raises |-> ""]
      IN  IF cached.raises # ""
          THEN Ran(cached.raises, TRUE, <<>>,
                   StepsBeforeCache \o <<"cache_detailed_results">>, NoResult, cached.W)
          ELSE Ran("ok", TRUE, <<>>,
                   StepsBeforeCache \o <<"cache_detailed_results", "TestResult">>,
                   TestResult(test_type, statistic, p_value, alpha, lib,
                              assumptions_dict(test_type, args, lib), cached.ret),
                   cached.W)

(* Mutant: the result of validate_input is ignored *)
run_ignores_validation(test_type, alpha, args, lib, attached, W, obj, current_time, io) ==
    IF ~ArgumentCountFits(test_type, args)
    THEN Ran("TypeError", FALSE, <<>>, <<>>, NoResult, W)
    ELSE LET r == run_from_step_2(test_type, alpha, args, lib, attached, W, obj, current_time, io)
         IN  [r EXCEPT !.valid = validate_input(test_type, args)]

(* run *)
run(test_type, alpha, args, lib, attached, W, obj, current_time, io) ==
    IF ~ArgumentCountFits(test_type, args)
    THEN Ran("TypeError", FALSE, <<>>, <<>>, NoResult, W)
    ELSE IF ~validate_input(test_type, args)
    THEN Ran("ValueError", FALSE, <<"Input validation failed for", test_type>>,
             <<"validate_input">>, NoResult, W)
    ELSE run_from_step_2(test_type, alpha, args, lib, attached, W, obj, current_time, io)

(* Inputs of the pipeline *)
AllNormal == <<PyFloat(60), PyFloat(60), PyFloat(60)>>
Alphas == {PyFloat(49), PyFloat(50)}
LibraryOutcomes ==
    {[raises |-> "none", statistic |-> PyFloat(2096), p_value |-> PyFloat(p),
      shapiro_numpy |-> FALSE, shapiro |-> AllNormal, levene |-> PyFloat(60),
      zero_differences |-> 0] : p \in {49, 50}}
    \cup {[raises |-> "none", statistic |-> PyNaN, p_value |-> PyNaN, shapiro_numpy |-> FALSE, shapiro |-> AllNormal, levene |-> PyFloat(60),
           zero_differences |-> 0]}
    \cup {[raises |-> r, statistic |-> PyNaN, p_value |-> PyNaN, shapiro_numpy |-> FALSE, shapiro |-> AllNormal, levene |-> PyFloat(60),
           zero_differences |-> 0] :
            r \in {"check_assumptions", "compute_statistic"}}

OneSample == {<<Sample(n, FALSE)>> : n \in {2, 7, 5001}} \cup {<<Sample(7, TRUE)>>}
TwoSamples ==
    {<<Sample(7, FALSE), Sample(7, FALSE)>>, <<Sample(7, FALSE), Sample(5, FALSE)>>,
     <<Sample(1, FALSE), Sample(1, FALSE)>>, <<Sample(7, FALSE), Sample(7, TRUE)>>}
ThreeSamples ==
    {<<Sample(7, FALSE), Sample(7, FALSE), Sample(7, FALSE)>>,
     <<Sample(7, FALSE), Sample(1, FALSE), Sample(7, FALSE)>>}
Arguments == OneSample \cup TwoSamples \cup ThreeSamples

(* test_instance.run(...).  test_instance.cache_manager is the CacheManager
   object when one has been constructed (the server sets it before every
   run) and None otherwise (the pipeline run on its own). *)
Run(h, Objs, Faults) ==
    /\ UNCHANGED suggested
    /\ Cardinality(DOMAIN index[h].entries) < MaxRunEntries
    /\ \E test_type \in TEST_REGISTRY, alpha \in Alphas, args \in Arguments,
          lib \in LibraryOutcomes, obj \in Objs, io \in Faults :
       \E r \in {run(test_type, alpha, args, lib, index[h].up, World(h), obj, now, io)} :
          LET attached == index[h].up
              cached == r.outcome = "ok" /\ attached
          IN  /\ IF attached THEN Install(h, r.W)
                             ELSE UNCHANGED <<index, indexFile, files, dataFiles>>
              /\ lastOp' = [op |-> "run", h |-> IF attached THEN h ELSE "",
                            id |-> NoId, ret |-> NotFound, tests |-> <<>>,
                            run |-> [test_type |-> test_type, args |-> args,
                                     alpha |-> alpha, valid |-> r.valid,
                                     outcome |-> r.outcome, message |-> r.message,
                                     steps |-> r.steps, result |-> r.result],
                            tool |-> NoTool, raises |-> "", advice |-> NoAdvice]
              /\ written' = IF cached /\ ~IsSentinel(r.result.cache_id)
                            THEN written \cup {[id |-> r.result.cache_id,
                                                payload |-> [statistic |-> r.result.statistic,
                                                             p_value |-> r.result.p_value],
                                                saved |-> io # "save_index"]}
                            ELSE written
              /\ deleted' = IF cached
                            THEN [deleted EXCEPT ![h] = @ \ {r.result.cache_id}]
                            ELSE deleted
              /\ sweeps' = [sweeps EXCEPT ![h] = 0]
              /\ UNCHANGED now

-----------------------------------------------------------------------------
(* The test suggester (utils/test_suggester.py) *)

(* What numpy and scipy compute on the data groups: the number of distinct
   values of the first group (np.unique), the groups whose Shapiro-Wilk p-value
   is below 0.05, whether Levene's p-value is >= 0.05 ("ge"), is not
   ("not_ge", which includes nan), or the call raises, and whether the IQR rule
   finds an outlier in some group *)
Statistics(unique, shapiro_low, levene, outliers) ==
    [unique |-> unique, shapiro_low |-> shapiro_low, levene |-> levene,
     outliers |-> outliers]

DataCharacteristics(n_samples, n_groups, is_paired, is_normal, equal_variances, data_type, has_outliers, sample_size_adequate) ==
    [n_samples |-> n_samples, n_groups |-> n_groups, is_paired |-> is_paired,
     is_normal |-> is_normal, equal_variances |-> equal_variances,
     data_type |-> data_type, has_outliers |-> has_outliers,
     sample_size_adequate |-> sample_size_adequate]

NoCharacteristics == DataCharacteristics(0, 0, FALSE, FALSE, FALSE, "", FALSE, FALSE)

(* Mutant: a low p-value rejects normality whatever the size of the group *)
check_normality_any_size(data_groups, lib) ==
    ~\E i \in DOMAIN data_groups :
        /\ data_groups[i].len >= 3 /\ data_groups[i].len <= 5000
        /\ i \in lib.shapiro_low

(* for group in data_groups: ... return False; return True *)
check_normality(data_groups, lib) ==
    ~\E i \in DOMAIN data_groups :
        /\ data_groups[i].len >= 3 /\ data_groups[i].len <= 5000
        /\ i \in lib.shapiro_low
        /\ data_groups[i].len < 30

check_equal_variances(data_groups, lib) ==
    IF Len(data_groups) < 2 THEN TRUE
    ELSE CASE lib.levene = "ge" -> TRUE
           [] lib.levene = "not_ge" -> FALSE
           [] OTHER -> TRUE

(* unique_values / n < 0.05 is unique_values * 100 < 5 * n *)
infer_data_type(data, lib) ==
    LET unique_values == lib.unique
        n == data.len
    IN  IF unique_values <= 10 THEN "ordinal"
        ELSE IF unique_values * 100 < 5 * n THEN "nominal"
        ELSE "continuous"

check_outliers(data_groups, lib) == lib.outliers

RECURSIVE sum(_)
sum(sample_sizes) ==
    IF sample_sizes = <<>> THEN 0 ELSE Head(sample_sizes) + sum(Tail(sample_sizes))

min(sample_sizes) ==
    CHOOSE m \in {sample_sizes[i] : i \in DOMAIN sample_sizes} :
        \A i \in DOMAIN sample_sizes : m <= sample_sizes[i]

analyze_data_paired_at_100(data_groups, lib) ==
    LET sizes == [i \in DOMAIN data_groups |-> data_groups[i].len]
        normal == check_normality(data_groups, lib)
    IN  DataCharacteristics(sum(sizes), Len(data_groups),
                            Len(data_groups) = 2 /\ sizes[1] = sizes[2] /\ sizes[1] <= 100,
                            normal,
                            IF Len(data_groups) >= 2
                            THEN check_equal_variances(data_groups, lib) ELSE TRUE,
                            infer_data_type(data_groups[1], lib),
                            check_outliers(data_groups, lib),
                            min(sizes) >= 30 \/ (min(sizes) >= 20 /\ normal))

(* analyze_data, after the check that there is a group *)
analyze_data(data_groups, lib) ==
    LET n_groups == Len(data_groups)
        sample_sizes == [i \in DOMAIN data_groups |-> data_groups[i].len]
        total_n == sum(sample_sizes)
        min_n == min(sample_sizes)
        is_paired == n_groups = 2 /\ sample_sizes[1] = sample_sizes[2]
                     /\ sample_sizes[1] < 100
        is_normal == check_normality(data_groups, lib)
        equal_variances == IF n_groups >= 2 THEN check_equal_variances(data_groups, lib)
                           ELSE TRUE
        data_type == infer_data_type(data_groups[1], lib)
        has_outliers == check_outliers(data_groups, lib)
        sample_size_adequate == min_n >= 30 \/ (min_n >= 20 /\ is_normal)
    IN  DataCharacteristics(total_n, n_groups, is_paired, is_normal, equal_variances,
                            data_type, has_outliers, sample_size_adequate)

(* A suggestion: the keys primary_test, test_name, confidence, parameters,
   assumptions_met, post_hoc and alternative_tests of the dict ("" for a key
   that is absent) *)
Suggestion(primary_test, test_name, confidence, parameters, assumptions_met, post_hoc, alternative_tests) ==
    [primary_test |-> primary_test, test_name |-> test_name, confidence |-> confidence,
     parameters |-> parameters, assumptions_met |-> assumptions_met,
     post_hoc |-> post_hoc, alternative_tests |-> alternative_tests]

NoSuggestion == Suggestion("", "", "", <<>>, FALSE, "",
                        <<>>)

(* The parameters dicts *)
NoParameters == [mu0 |-> "", equal_var |-> ""]
TruthyNumber(mu0) == mu0 \notin {"", "0"}

suggest_one_sample_test_unless_ordinal(chars, kwargs) ==
    IF chars.data_type # "ordinal"
    THEN IF chars.is_normal \/ chars.sample_size_adequate
         THEN Suggestion("one_sample_t_test", "One-Sample T-Test", "high", NoParameters,
                         TRUE, "",
                        <<"sign_test", "wilcoxon_signed_rank">>)
         ELSE Suggestion("wilcoxon_signed_rank", "Wilcoxon Signed-Rank Test", "high",
                         NoParameters, TRUE, "",
                        <<"sign_test">>)
    ELSE Suggestion("sign_test", "Sign Test", "medium", NoParameters, TRUE, "",
                        <<>>)

suggest_one_sample_test(chars, kwargs) ==
    LET mu0 == kwargs.mu0
    IN  IF chars.data_type \in {"continuous"}
        THEN IF chars.is_normal \/ chars.sample_size_adequate
             THEN Suggestion("one_sample_t_test", "One-Sample T-Test", "high",
                             IF TruthyNumber(mu0) THEN [NoParameters EXCEPT !.mu0 = mu0]
                                            ELSE NoParameters,
                             TRUE, "",
                        <<"sign_test", "wilcoxon_signed_rank">>)
             ELSE Suggestion("wilcoxon_signed_rank", "Wilcoxon Signed-Rank Test", "high",
                             NoParameters, TRUE, "",
                        <<"sign_test">>)
        ELSE Suggestion("sign_test", "Sign Test", "medium", NoParameters, TRUE, "",
                        <<>>)

(* Mutant: outliers turn the suggestion for independent groups to the rank test *)
suggest_two_sample_test_wary_of_outliers(chars) ==
    IF chars.is_paired
    THEN IF chars.data_type = "continuous" /\ (chars.is_normal \/ chars.sample_size_adequate)
         THEN Suggestion("paired_t_test", "Paired T-Test", "high", NoParameters, TRUE, "",
                         <<"wilcoxon_signed_rank">>)
         ELSE Suggestion("wilcoxon_signed_rank", "Wilcoxon Signed-Rank Test", "high",
                         NoParameters, TRUE, "", <<"sign_test">>)
    ELSE IF /\ chars.data_type = "continuous"
            /\ (chars.is_normal \/ chars.sample_size_adequate)
            /\ ~chars.has_outliers
         THEN IF chars.equal_variances
              THEN Suggestion("two_sample_t_test", "Independent Two-Sample T-Test", "high",
                              [NoParameters EXCEPT !.equal_var = "True"], TRUE, "",
                              <<"mann_whitney_u">>)
              ELSE Suggestion("two_sample_t_test", "Welch's T-Test", "high",
                              [NoParameters EXCEPT !.equal_var = "False"], FALSE, "",
                              <<"mann_whitney_u">>)
         ELSE Suggestion("mann_whitney_u", "Mann-Whitney U Test", "high", NoParameters,
                         TRUE, "", <<>>)

suggest_two_sample_test(chars) ==
    IF chars.is_paired
    THEN IF chars.data_type = "continuous"
         THEN IF chars.is_normal \/ chars.sample_size_adequate
              THEN Suggestion("paired_t_test", "Paired T-Test", "high",
                              NoParameters, TRUE, "",
                        <<"wilcoxon_signed_rank">>)
              ELSE Suggestion("wilcoxon_signed_rank", "Wilcoxon Signed-Rank Test",
                              "high", NoParameters, TRUE, "",
                        <<"sign_test">>)
         ELSE Suggestion("wilcoxon_signed_rank", "Wilcoxon Signed-Rank Test", "high",
                         NoParameters, TRUE, "",
                        <<"sign_test">>)
    ELSE IF chars.data_type = "continuous"
         THEN IF chars.is_normal \/ chars.sample_size_adequate
              THEN IF chars.equal_variances
                   THEN Suggestion("two_sample_t_test", "Independent Two-Sample T-Test",
                                   "high", [NoParameters EXCEPT !.equal_var = "True"],
                                   TRUE, "",
                        <<"mann_whitney_u">>)
                   ELSE Suggestion("two_sample_t_test", "Welch's T-Test", "high",
                                   [NoParameters EXCEPT !.equal_var = "False"],
                                   FALSE, "",
                        <<"mann_whitney_u">>)
              ELSE Suggestion("mann_whitney_u", "Mann-Whitney U Test", "high",
                              NoParameters, TRUE, "",
                        <<>>)
         ELSE Suggestion("mann_whitney_u", "Mann-Whitney U Test", "high",
                         NoParameters, TRUE, "",
                        <<>>)

suggest_multi_sample_test_anova_despite_variances(chars) ==
    IF chars.data_type = "continuous" /\ (chars.is_normal \/ chars.sample_size_adequate)
    THEN Suggestion("one_way_anova", "One-Way ANOVA", "high", NoParameters, TRUE,
                    "Consider Tukey HSD if significant",
                        <<"kruskal_wallis">>)
    ELSE Suggestion("kruskal_wallis", "Kruskal-Wallis Test", "high", NoParameters, TRUE,
                    "Consider Dunn's test if significant",
                        <<>>)

suggest_multi_sample_test(chars) ==
    IF chars.data_type = "continuous"
    THEN IF chars.is_normal \/ chars.sample_size_adequate
         THEN IF chars.equal_variances
              THEN Suggestion("one_way_anova", "One-Way ANOVA", "high", NoParameters,
                              TRUE, "Consider Tukey HSD if significant",
                        <<"kruskal_wallis">>)
              ELSE Suggestion("kruskal_wallis", "Kruskal-Wallis Test", "high",
                              NoParameters, FALSE,
                              "Consider Dunn's test if significant",
                        <<>>)
         ELSE Suggestion("kruskal_wallis", "Kruskal-Wallis Test", "high", NoParameters,
                         TRUE, "Consider Dunn's test if significant",
                        <<>>)
    ELSE Suggestion("kruskal_wallis", "Kruskal-Wallis Test", "high", NoParameters, TRUE,
                    "Consider Dunn's test if significant",
                        <<>>)

(* What TestSuggester.suggest_test leaves: the exception it raises (or ""),
   the characteristics it found and the suggestion it returns *)
Advised(raises, chars, suggestion) ==
    [raises |-> raises, chars |-> chars, suggestion |-> suggestion]

TestSuggester_suggest_test_by_cache(data_groups, kwargs, lib) ==
    IF Len(data_groups) = 0
    THEN Advised("ValueError", NoCharacteristics, NoSuggestion)
    ELSE IF DOMAIN files # {}
    THEN Advised("", analyze_data(data_groups, lib),
                 suggest_multi_sample_test(analyze_data(data_groups, lib)))
    ELSE Advised("", analyze_data(data_groups, lib),
                 suggest_one_sample_test(analyze_data(data_groups, lib), kwargs))

(* TestSuggester.suggest_test: kwargs holds the keyword arguments *)
TestSuggester_suggest_test(data_groups, kwargs, lib) ==
    IF Len(data_groups) = 0
    THEN Advised("ValueError", NoCharacteristics, NoSuggestion)
    ELSE LET chars == analyze_data(data_groups, lib)
         IN  IF chars.n_groups = 1
             THEN Advised("", chars, suggest_one_sample_test(chars, kwargs))
             ELSE IF chars.n_groups = 2
             THEN Advised("", chars, suggest_two_sample_test(chars))
             ELSE Advised("", chars, suggest_multi_sample_test(chars))

(* The data the suggester is asked about *)
SuggestSizes == {2, 20, 29, 30, 99, 100, 300}
MultiSizes == {20, 30}

(* Numbers of distinct values a group of n values can hold, around the
   thresholds of _infer_data_type *)
UniqueCounts(n) == {u \in {10, 11, 15, n} : u <= n}

DataGroups ==
    {<<>>}
    \cup {<<Sample(n, FALSE)>> : n \in SuggestSizes}
    \cup {<<Sample(n1, FALSE), Sample(n2, FALSE)>> : n1 \in SuggestSizes, n2 \in SuggestSizes}
    \cup {<<Sample(n1, FALSE), Sample(n2, FALSE), Sample(n3, FALSE)>> :
            n1 \in MultiSizes, n2 \in MultiSizes, n3 \in MultiSizes}

(* What the library can find in data groups: Levene's test is called on two
   groups or more only *)
StatisticsOf(data_groups) ==
    IF data_groups = <<>> THEN {Statistics(0, {}, "ge", FALSE)}
    ELSE {Statistics(u, low, lev, out) :
            u \in UniqueCounts(data_groups[1].len),
            low \in SUBSET DOMAIN data_groups,
            lev \in IF Len(data_groups) < 2 THEN {"ge"} ELSE {"ge", "not_ge", "raises"},
            out \in BOOLEAN}

KeywordArguments(data_groups) ==
    IF Len(data_groups) = 1 THEN {[mu0 |-> ""], [mu0 |-> "0"], [mu0 |-> "5000"]}
    ELSE {[mu0 |-> ""]}

(* The call of TestSuggester.suggest_test that is about to be made *)
Asked(data_groups, kwargs, lib) ==
    [NoOp EXCEPT !.op = "data",
                 !.advice = [NoAdvice EXCEPT !.data_groups = data_groups,
                                             !.kwargs = kwargs, !.lib = lib]]

(* The call made *)
Suggested(name, data_groups, kwargs, lib, advised) ==
    [NoOp EXCEPT !.op = name,
                 !.advice = [data_groups |-> data_groups, kwargs |-> kwargs,
                             lib |-> lib, raises |-> advised.raises,
                             chars |-> advised.chars,
                             suggestion |-> advised.suggestion]]

(* TestSuggester().suggest_test on the data asked about *)
Suggest ==
    /\ lastOp.op = "data"
    /\ lastOp' = Suggested("TestSuggester.suggest_test", lastOp.advice.data_groups,
                           lastOp.advice.kwargs, lastOp.advice.lib,
                           TestSuggester_suggest_test(lastOp.advice.data_groups,
                                                      lastOp.advice.kwargs,
                                                      lastOp.advice.lib))
    /\ UNCHANGED <<now, indexFile, files, dataFiles, index, written, deleted, sweeps,
                   suggested>>

(* The suggester alone, asked once about each data *)
InitSuggest ==
    /\ now = 0
    /\ \E st \in InitialStorages :
          /\ st.indexFile.state = "absent"
          /\ indexFile = st.indexFile
          /\ files = st.files
    /\ dataFiles = {}
    /\ index = [h \in Handles |-> NotConstructed]
    /\ \E data_groups \in DataGroups :
          \E kwargs \in KeywordArguments(data_groups), lib \in StatisticsOf(data_groups) :
              lastOp = Asked(data_groups, kwargs, lib)
    /\ suggested = NoneSuggested
    /\ written = {}
    /\ deleted = [h \in Handles |-> {}]
    /\ sweeps = [h \in Handles |-> 0]

NextSuggest == Suggest

SpecSuggest == InitSuggest /\ [][NextSuggest]_vars

-----------------------------------------------------------------------------
(* The server's tools (mcp_server.py) *)

(* TestResult.to_dict, with the nested dicts flattened to dotted keys.  The
   texts (name, hypotheses, interpretation, recommendation) and the optional
   statistics are not represented.  A test id is the string of its type
   and the number of its clock reading and params object. *)
PyId(id) ==
    IF id = NoId THEN PyNone
    ELSE IF IsSentinel(id)
    THEN [type |-> "str", num |-> id[3] * 10 + id[4], str |-> "cache_error_" \o id[2]]
    ELSE [type |-> "str", num |-> id[2] * 10 + id[3], str |-> id[1]]

to_dict(result) ==
    [k \in {"test_type", "statistics.test_statistic", "statistics.p_value",
            "statistics.alpha", "hypothesis.decision", "hypothesis.significant",
            "metadata.assumptions_met", "cache_id"} |->
        CASE k = "test_type" -> PyStr(result.test_type)
          [] k = "statistics.test_statistic" -> result.statistic
          [] k = "statistics.p_value" -> result.p_value
          [] k = "statistics.alpha" -> result.alpha
          [] k = "hypothesis.decision" -> PyStr(result.decision)
          [] k = "hypothesis.significant" -> PyBool(result.significant)
          [] k = "metadata.assumptions_met" ->
                IF result.assumptions_met.values = "numpy.bool_"
                THEN PyNumpyBool(TRUE) ELSE PyBool(TRUE)
          [] k = "cache_id" -> PyId(result.cache_id)]

(* A dataset file of the datasets directory: whether it exists, the layout
   of its "data" section and the samples it holds *)
Dataset(name, exists, format, samples) ==
    [name |-> name, exists |-> exists, format |-> format, samples |-> samples]

Datasets ==
    {Dataset("missing", FALSE, "values", <<>>),
     Dataset("unsupported", TRUE, "unsupported", <<>>),
     Dataset("sales_example", TRUE, "values", <<Sample(7, FALSE)>>),
     Dataset("two_values", TRUE, "values", <<Sample(2, FALSE)>>),
     Dataset("website_redesign", TRUE, "paired", <<Sample(7, FALSE), Sample(7, FALSE)>>),
     Dataset("ragged_pairs", TRUE, "paired", <<Sample(7, FALSE), Sample(5, FALSE)>>),
     Dataset("two_groups", TRUE, "groups", <<Sample(7, FALSE), Sample(7, FALSE)>>),
     Dataset("three_groups", TRUE, "groups",
             <<Sample(7, FALSE), Sample(7, FALSE), Sample(7, FALSE)>>)}

(* load_dataset followed by get_data_array: the exception raised, or "" *)
LoadRaises(dataset) ==
    IF ~dataset.exists THEN "FileNotFoundError"
    ELSE IF dataset.format = "unsupported" THEN "ValueError"
    ELSE ""

(* Responses of the tools *)
ErrorResponse(error, detail) ==
    [kind |-> "error", error |-> error, detail |-> detail, available_tests |-> {},
     summary |-> <<>>, cache_id |-> NoId]
UnknownTestResponse(available_tests) ==
    [kind |-> "error", error |-> "Unknown test type", detail |-> "",
     available_tests |-> available_tests, summary |-> <<>>, cache_id |-> NoId]
SummaryResponse(result, cache_id) ==
    [kind |-> "summary", error |-> "", detail |-> "", available_tests |-> {},
     summary |-> [decision |-> result.decision, p_value |-> result.p_value,
                  alpha |-> result.alpha, significant |-> result.significant],
     cache_id |-> cache_id]

(* What run_hypothesis_test leaves: the response, what run left, how the
   second cache write (the full result) ended, the cache directory *)
Served(response, ran, persisted, W) ==
    [response |-> response, ran |-> ran, persisted |-> persisted, W |-> W]

NotRun(W) == Ran("", FALSE, <<>>, <<>>, NoResult, W)

(* run_hypothesis_test.  obj1 and obj2 are the addresses of the two dicts
   passed to cache_result (kwargs in run, result.to_dict() here); io is the
   file-system fault the second cache write meets. *)
(* The end of run_hypothesis_test: r is what run left and c what the
   cache_result of the full result left *)
return_summary(r, c) ==
    IF c.raises # ""
    THEN Served(ErrorResponse("Error running test", c.raises), r, c.raises, c.W)
    ELSE Served(SummaryResponse(r.result, c.ret), r,
                IF IsSentinel(c.ret) THEN "sentinel" ELSE "ok", c.W)

(* run_hypothesis_test once test_instance.run has returned or raised *)
cache_full_result(r, test_type, obj2, current_time, io) ==
    IF r.outcome # "ok"
    THEN Served(ErrorResponse("Error running test", r.outcome), r, "", r.W)
    ELSE return_summary(r, cache_result(r.W, test_type, to_dict(r.result), "summary",
                                        obj2, current_time, io))

run_hypothesis_test(W, test_type, dataset, alpha, lib, obj1, obj2, current_time, io) ==
    IF LoadRaises(dataset) # ""
    THEN Served(ErrorResponse("Error running test", LoadRaises(dataset)), NotRun(W), "", W)
    ELSE IF test_type \notin TEST_REGISTRY
    THEN Served(UnknownTestResponse(TEST_REGISTRY), NotRun(W), "", W)
    ELSE cache_full_result(run(test_type, alpha, dataset.samples, lib, TRUE, W, obj1,
                               current_time, "none"),
                           test_type, obj2, current_time, io)

(* Inputs of the server's tools *)
ServerTestTypes ==
    {"one_sample_t_test", "two_sample_t_test", "paired_t_test", "levene", "chi_square"}
ServerDatasets == {d \in Datasets : d.name \notin {"two_values", "three_groups"}}
ServerAlphas == {PyFloat(50)}
ServerLibraryOutcomes ==
    {[raises |-> "none", statistic |-> PyFloat(2096), p_value |-> PyFloat(49),
      shapiro_numpy |-> n, shapiro |-> AllNormal, levene |-> PyFloat(60),
           zero_differences |-> 0] : n \in BOOLEAN}
    \cup {[raises |-> "compute_statistic", statistic |-> PyNaN, p_value |-> PyNaN,
           shapiro_numpy |-> FALSE, shapiro |-> AllNormal, levene |-> PyFloat(60),
           zero_differences |-> 0]}
ServerFaults == {"none", "dump_result"}
AdviceLibraryOutcomes == {lib \in ServerLibraryOutcomes : lib.raises = "none"}

(* The tool run_hypothesis_test, called on the server whose cache object is h *)
RunHypothesisTest(h, TestTypes, Data, Libs, Objs, Faults) ==
    /\ UNCHANGED suggested
    /\ index[h].up
    /\ Cardinality(DOMAIN index[h].entries) < MaxRunEntries
    /\ \E test_type \in TestTypes, dataset \in Data, alpha \in ServerAlphas,
          lib \in Libs, obj2 \in Objs, io \in Faults :
       \E s \in {run_hypothesis_test(World(h), test_type, dataset, alpha, lib,
                                     1, obj2, now, io)} :
          LET first == IF s.ran.outcome = "ok" /\ ~IsSentinel(s.ran.result.cache_id)
                       THEN {[id |-> s.ran.result.cache_id,
                              payload |-> [statistic |-> s.ran.result.statistic,
                                           p_value |-> s.ran.result.p_value],
                              saved |-> TRUE]}
                       ELSE {}
              second == IF s.persisted = "ok"
                        THEN {[id |-> s.response.cache_id,
                               payload |-> to_dict(s.ran.result), saved |-> TRUE]}
                        ELSE {}
          IN  /\ Install(h, s.W)
              /\ lastOp' = [op |-> "run_hypothesis_test", h |-> h,
                            id |-> s.response.cache_id, ret |-> NotFound, tests |-> <<>>,
                            run |-> [test_type |-> test_type, args |-> dataset.samples,
                                     alpha |-> alpha, valid |-> s.ran.valid,
                                     outcome |-> s.ran.outcome, message |-> s.ran.message,
                                     steps |-> s.ran.steps, result |-> s.ran.result],
                            tool |-> [test_type |-> test_type, dataset |-> dataset.name,
                                      response |-> s.response, persisted |-> s.persisted],
                            raises |-> "", advice |-> NoAdvice]
              /\ written' = written \cup first \cup second
              /\ deleted' = [deleted EXCEPT ![h] = @ \ {w.id : w \in first \cup second}]
              /\ sweeps' = [sweeps EXCEPT ![h] = 0]
              /\ UNCHANGED now

NoFaults == {"none"}

(* One process: the server's object, re-created when the server restarts.
   The callers here pass no raw data (cache_detailed_results,
   test_cache_manager) and the file system does not fail. *)
Next ==
    \/ Tick
    \/ Construct(cache_manager, NoFaults)
    \/ CacheResult(cache_manager, Payloads, ObjectIds, {"None"}, NoFaults)
    \/ GetResult(cache_manager)
    \/ DeleteResult(cache_manager, NoFaults)
    \/ ListCachedTests(cache_manager)
    \/ ClearAll(cache_manager, NoFaults)
    \/ CleanupExpired(cache_manager, NoFaults)

Spec == Init /\ [][Next]_vars

(* Two processes attached to the same cache directory *)
NextShared ==
    \/ Tick
    \/ \E h \in Handles : Construct(h, NoFaults)
    \/ \E h \in Handles : CacheResult(h, {LegacyPayload}, {1}, {"None"}, NoFaults)
    \/ \E h \in Handles : GetResult(h)
    \/ \E h \in Handles : DeleteResult(h, NoFaults)

SpecShared == Init /\ [][NextShared]_vars

(* The pipeline, run on its own and then by the server with its cache, in a
   directory that holds no cache yet *)
InitRun == Init /\ indexFile.state = "absent"

NextRun ==
    \/ Construct(cache_manager, NoFaults)
    \/ Run(cache_manager, {1}, NoFaults)

SpecRun == InitRun /\ [][NextRun]_vars

-----------------------------------------------------------------------------
(* The server's get_cached_result: the result, or an error response *)

NotFoundResponse ==
    [error |-> "Cache entry not found or expired", result |-> EmptyDict, raises |-> ""]

(* get_cached_result has no handler of its own: what get_result raises leaves
   the tool *)
get_cached_result(cache_id, include_raw_data) ==
    LET result == get_result(World(cache_manager), cache_id, include_raw_data)
    IN  IF result.raises # ""
        THEN [error |-> "", result |-> EmptyDict, raises |-> result.raises]
        ELSE IF ~result.found THEN NotFoundResponse
        ELSE [error |-> "", result |-> result.result, raises |-> ""]

(* The tool get_cached_result *)
GetCachedResult ==
    /\ UNCHANGED suggested
    /\ index[cache_manager].up
    /\ \E cache_id \in KnownIds(cache_manager), include_raw_data \in BOOLEAN :
          LET r == get_cached_result(cache_id, include_raw_data)
          IN  /\ lastOp' = [Op("get_cached_result", cache_manager, cache_id,
                                get_result(World(cache_manager), cache_id,
                                           include_raw_data), <<>>)
                            EXCEPT !.raises = r.raises,
                                   !.tool = [NoTool EXCEPT !.response = r]]
              /\ sweeps' = [sweeps EXCEPT ![cache_manager] = 0]
              /\ UNCHANGED <<now, indexFile, files, dataFiles, index, written, deleted>>

(* The tool check_assumptions of the server *)
AssumptionsResponse(assumptions) ==
    [kind |-> "assumptions", error |-> "", detail |-> "", available_tests |-> {},
     summary |-> assumptions, cache_id |-> NoId]

tool_check_assumptions(dataset, test_type, lib) ==
    IF LoadRaises(dataset) # ""
    THEN ErrorResponse("Error checking assumptions", LoadRaises(dataset))
    ELSE IF test_type \notin TEST_REGISTRY
    THEN UnknownTestResponse({})
    ELSE IF ~ArgumentCountFits(test_type, dataset.samples)
    THEN ErrorResponse("Error checking assumptions", "TypeError")
    ELSE AssumptionsResponse(check_assumptions(test_type, lib))

CheckAssumptions(TestTypes, Data, Libs) ==
    /\ UNCHANGED suggested
    /\ \E test_type \in TestTypes, dataset \in Data, lib \in Libs :
        /\ lastOp' = [Op("check_assumptions", cache_manager, NoId, NotFound, <<>>)
                      EXCEPT !.tool = [test_type |-> test_type,
                                       dataset |-> dataset.name,
                                       response |-> tool_check_assumptions(dataset,
                                                        test_type, lib),
                                       persisted |-> ""]]
        /\ UNCHANGED <<now, indexFile, files, dataFiles, index, written, deleted, sweeps>>

(* The tool list_available_tests *)
TestsResponse(tests) ==
    [kind |-> "tests", error |-> "", detail |-> "", available_tests |-> tests,
     summary |-> <<>>, cache_id |-> NoId]

ListAvailableTests ==
    /\ UNCHANGED suggested
    /\ lastOp' = [Op("list_available_tests", cache_manager, NoId, NotFound, <<>>)
                  EXCEPT !.tool = [NoTool EXCEPT !.response = TestsResponse(TEST_REGISTRY)]]
    /\ UNCHANGED <<now, indexFile, files, dataFiles, index, written, deleted, sweeps>>

(* The tool suggest_test of the server *)
SuggestionResponse(suggestion) ==
    [kind |-> "suggestion", error |-> "", detail |-> "", available_tests |-> {},
     summary |-> suggestion, cache_id |-> NoId]

(* test_params is None or a dict: the keyword arguments it becomes *)
TestParams == {[mu0 |-> ""], [mu0 |-> "5000"]}

(* What suggest_test leaves: the response, what the suggester left, the
   cache directory *)
Answered(response, advised, W) == [response |-> response, advised |-> advised, W |-> W]

NotAdvised == Advised("", NoCharacteristics, NoSuggestion)

suggest_test_caching(W, dataset, test_params, lib) ==
    LET advised == TestSuggester_suggest_test(dataset.samples, test_params, lib)
        c == cache_result(W, "suggestion", EmptyDict, "", 1, now, "none")
    IN  IF LoadRaises(dataset) # "" \/ advised.raises # ""
        THEN Answered(ErrorResponse("Error suggesting test", "Exception"), NotAdvised, c.W)
        ELSE Answered(SuggestionResponse(advised.suggestion), advised, c.W)

suggest_test(W, dataset, test_params, lib) ==
    IF LoadRaises(dataset) # ""
    THEN Answered(ErrorResponse("Error suggesting test", LoadRaises(dataset)),
                  NotAdvised, W)
    ELSE LET advised == TestSuggester_suggest_test(dataset.samples, test_params, lib)
         IN  IF advised.raises # ""
             THEN Answered(ErrorResponse("Error suggesting test", advised.raises),
                           advised, W)
             ELSE Answered(SuggestionResponse(advised.suggestion), advised, W)

(* The datasets suggest_test is asked about, and what the library finds in
   them *)
SuggestDatasets ==
    {d \in Datasets : d.name \in {"missing", "sales_example", "website_redesign"}}
    \cup {Dataset("no_groups", TRUE, "groups", <<>>),
          Dataset("large_sample", TRUE, "values", <<Sample(30, FALSE)>>),
          Dataset("large_groups", TRUE, "groups",
                  <<Sample(30, FALSE), Sample(20, FALSE), Sample(30, FALSE)>>)}

DatasetStatistics(dataset) ==
    IF dataset.samples = <<>> THEN {Statistics(0, {}, "ge", FALSE)}
    ELSE {Statistics(dataset.samples[1].len, low, "ge", FALSE) : low \in {{}, {2}}}

SuggestTest(h, Data, Params, Remember) ==
    /\ index[h].up
    /\ \E dataset \in Data, test_params \in Params, remember \in Remember :
       \E lib \in DatasetStatistics(dataset) :
          LET a == suggest_test(World(h), dataset, test_params, lib)
          IN  /\ Install(h, a.W)
              /\ lastOp' = [Suggested("suggest_test", dataset.samples, test_params, lib,
                                      a.advised)
                            EXCEPT !.h = h,
                                   !.tool = [test_type |-> "", dataset |-> dataset.name,
                                             response |-> a.response, persisted |-> ""]]
              /\ suggested' = IF remember
                              THEN [asked |-> TRUE, data_groups |-> dataset.samples,
                                    kwargs |-> test_params, lib |-> lib,
                                    primary_test |-> a.advised.suggestion.primary_test,
                                    cached |-> DOMAIN index[h].entries]
                              ELSE suggested
              /\ UNCHANGED <<now, written, deleted, sweeps>>

(* The tools the clients can call *)
Tools == {"run_hypothesis_test", "suggest_test", "get_cached_result",
          "check_assumptions", "list_available_tests"}

(* The server: its cache object is constructed when the module is loaded,
   then its tools are called *)
InitServer == InitIn(ServerStorages)

NextServer ==
    \/ Construct(cache_manager, NoFaults)
    \/ RunHypothesisTest(cache_manager, ServerTestTypes, ServerDatasets,
                         ServerLibraryOutcomes, ObjectIds, ServerFaults)
    \/ GetCachedResult
    \/ CheckAssumptions(ServerTestTypes, ServerDatasets, AdviceLibraryOutcomes)
    \/ ListAvailableTests
    \/ SuggestTest(cache_manager, SuggestDatasets, TestParams, {FALSE})

SpecServer == InitServer /\ [][NextServer]_vars

(* The server asked for suggestions between runs of tests, one earlier
   suggestion being remembered *)
AdviceTestTypes == {"one_sample_t_test", "chi_square"}
AdviceDatasets == {d \in Datasets : d.name \in {"sales_example", "missing"}}

InitAdvice == InitRun

NextAdvice ==
    \/ Construct(cache_manager, NoFaults)
    \/ RunHypothesisTest(cache_manager, AdviceTestTypes, AdviceDatasets,
                         AdviceLibraryOutcomes, {2}, NoFaults)
    \/ ClearAll(cache_manager, NoFaults)
    \/ SuggestTest(cache_manager, SuggestDatasets, TestParams, BOOLEAN)

SpecAdvice == InitAdvice /\ [][NextAdvice]_vars

-----------------------------------------------------------------------------
(* Properties of the cache *)

Age(entry) == now - fromisoformat(entry.created)

(* C2: every payload cache_result stored under a normal identifier is what
   get_result(identifier, include_raw_data=False) returns, field for field,
   after any later cache_result, get_result and list_cached_tests calls and
   deletions of other identifiers, while the entry is in the index, not
   deleted and not older than the time-to-live. *)
C2_RoundTrip ==
    \A w \in written : \A h \in Handles :
        (/\ w.id \in DOMAIN index[h].entries
         /\ Age(index[h].entries[w.id]) <= ttl)
        => get_result(World(h), w.id, FALSE) = Found(w.payload)

(* C3: once an entry written by cache_result is older than the time-to-live,
   get_result and get_cached_result return not-found for it. *)
C3_ExpiredNotFound ==
    \A h \in Handles : \A id \in DOMAIN index[h].entries :
        (~CreatedRaises(index[h].entries[id]) /\ Age(index[h].entries[id]) > ttl)
        => /\ get_result(World(h), id, FALSE) = NotFound
           /\ h = cache_manager => get_cached_result(id, FALSE) = NotFoundResponse

(* C4: after delete_result(id) on a cached id, get_result(id) on that object
   returns not-found and list_cached_tests does not list id, whatever is
   done to other identifiers, until cache_result generates id again. *)
C4_DeletedStaysDeleted ==
    \A h \in Handles : \A id \in deleted[h] :
        /\ get_result(World(h), id, FALSE) = NotFound
        /\ get_result(World(h), id, TRUE) = NotFound
        /\ \A i \in DOMAIN list_cached_tests(World(h)) :
              list_cached_tests(World(h))[i].test_id # id

(* C4 witness: an id was deleted, get_result was then called on it and
   returned not-found while another entry is live *)
C4_Witness ==
    \E h \in Handles : \E id \in deleted[h] :
        /\ lastOp.op = "get_result" /\ lastOp.h = h /\ lastOp.id = id
        /\ ~lastOp.ret.found
        /\ \E other \in DOMAIN index[h].entries :
              get_result(World(h), other, FALSE).found

(* The entries of the index file that the construction sweep must keep *)
Unexpired(entries) ==
    {id \in DOMAIN entries :
        entries[id].created.fmt = "iso" /\ now - entries[id].created.t <= ttl_hours}

(* C5: constructing a cache over an existing index file leaves in the index
   exactly the entries whose creation timestamp parses and whose age is at
   most the time-to-live, unchanged; the others are removed by delete_result
   (entry, result file, persisted entry). *)
C5_ConstructSweep ==
    [][\A h \in Handles :
         (lastOp'.op = "__init__" /\ lastOp'.h = h /\ indexFile.state = "ok")
         => /\ index'[h].entries = Restrict(indexFile.entries, Unexpired(indexFile.entries))
            /\ indexFile'.entries = index'[h].entries
            /\ \A id \in DOMAIN indexFile.entries \ Unexpired(indexFile.entries) :
                  indexFile.entries[id].result_file \notin DOMAIN files']_vars

(* C5 witness: a construction whose sweep removed an entry and kept another *)
C5_Witness ==
    \E h \in Handles :
        /\ lastOp.op = "__init__" /\ lastOp.h = h
        /\ deleted[h] # {}
        /\ index[h].entries # NoEntries

(* C6: an expiry sweep that follows a sweep on the same object, with no
   other call on it and no clock advance in between, removes nothing. *)
C6_SweepIdempotent ==
    [][\A h \in Handles :
         (lastOp'.op = "_cleanup_expired" /\ lastOp'.h = h /\ sweeps[h] >= 1)
         => /\ index'[h].entries = index[h].entries
            /\ files' = files]_vars

(* C6 witness: two sweeps in succession, the first after entries had
   expired, with an entry surviving both *)
C6_Witness ==
    \E h \in Handles :
        /\ lastOp.op = "_cleanup_expired" /\ lastOp.h = h
        /\ sweeps[h] = 2
        /\ deleted[h] # {}
        /\ index[h].entries # NoEntries

(* C7: every identifier cache_result returned and saved, through either
   object, and that no delete_result call or sweep has removed, is in the
   persisted index. *)
C7_NoLostUpdate ==
    \A w \in written :
        w.saved => (indexFile.state = "ok" /\ w.id \in DOMAIN indexFile.entries)

(* C8: once cache_result has returned an identifier, get_result through any
   constructed object returns the written payload until the entry is
   deleted or older than the time-to-live. *)
C8_ReadAfterWrite ==
    \A w \in written : \A h \in Handles :
        (index[h].up /\ now - w.id[2] <= ttl)
        => get_result(World(h), w.id, FALSE) = Found(w.payload)

-----------------------------------------------------------------------------
(* The pipeline's claims, on the last call of run *)

Completed == lastOp.op = "run" /\ lastOp.run.outcome = "ok"

(* C1: whenever run completes, for whichever strategy, the TestResult has
   significant equal to (p_value < alpha) with strict less-than, so that a
   p_value equal to alpha (or one that is nan) is not significant, and decision
   is "reject" when significant and "fail_to_reject" otherwise. *)
C1_SignificantIffBelowAlpha ==
    Completed =>
        LET result == lastOp.run.result
            below == /\ result.p_value.str # "nan"
                     /\ result.p_value.num < result.alpha.num
        IN  /\ result.alpha = lastOp.run.alpha
            /\ result.significant = below
            /\ result.decision = (IF below THEN "reject" ELSE "fail_to_reject")

(* a run that completed with p_value equal to alpha *)
C1_Witness ==
    /\ Completed
    /\ lastOp.run.result.p_value = lastOp.run.result.alpha
    /\ ~lastOp.run.result.significant
    /\ lastOp.run.result.decision = "fail_to_reject"

(* C9: when validate_input returns False, run ends at step 1 with the
   validation error that names the strategy's variant: no later step is
   executed, no TestResult is produced, and the cache (index in memory, index
   file, result files) is left as it was. *)
C9_ValidationHalts ==
    [][(lastOp'.op = "run" /\ ArgumentCountFits(lastOp'.run.test_type, lastOp'.run.args)
          /\ ~validate_input(lastOp'.run.test_type, lastOp'.run.args))
       => /\ lastOp'.run.outcome = "ValueError"
          /\ lastOp'.run.message = <<"Input validation failed for", lastOp'.run.test_type>>
          /\ lastOp'.run.steps = <<"validate_input">>
          /\ lastOp'.run.result = NoResult
          /\ UNCHANGED <<index, indexFile, files, dataFiles>>]_vars

(* a run with the server's cache attached that stopped at validation *)
C9_Witness ==
    /\ lastOp.op = "run"
    /\ lastOp.h = cache_manager
    /\ ~lastOp.run.valid
    /\ lastOp.run.outcome = "ValueError"
    /\ lastOp.run.test_type = "shapiro_wilk"

PairedStrategies == {"paired_t_test", "wilcoxon_signed_rank"}

UnequalPair ==
    /\ lastOp.op = "run"
    /\ lastOp.run.test_type \in PairedStrategies
    /\ Len(lastOp.run.args) = 2
    /\ lastOp.run.args[1].len # lastOp.run.args[2].len

(* C10: a run of paired_t_test or wilcoxon_signed_rank on two samples of
   unequal length ends in the validation error; compute_statistic is never
   reached and there is no TestResult. *)
C10_UnequalPairsRejected ==
    UnequalPair =>
        /\ lastOp.run.outcome = "ValueError"
        /\ lastOp.run.message = <<"Input validation failed for", lastOp.run.test_type>>
        /\ \A i \in DOMAIN lastOp.run.steps : lastOp.run.steps[i] # "compute_statistic"
        /\ lastOp.run.result = NoResult

(* paired_t_test run on samples of lengths 7 and 5 *)
C10_Witness ==
    /\ UnequalPair
    /\ lastOp.run.test_type = "paired_t_test"
    /\ lastOp.run.outcome = "ValueError"

-----------------------------------------------------------------------------
(* C11: a failure while persisting the full result (the result file cannot be
   written, or the payload cannot be serialised) does not abort the run:
   cache_result returns a sentinel identifier and run_hypothesis_test still
   answers with the summary of the result it computed. *)
C11_PersistFailureNonFatal ==
    (/\ lastOp.op = "run_hypothesis_test"
     /\ lastOp.run.outcome = "ok"
     /\ lastOp.tool.persisted # "ok")
    => /\ lastOp.tool.response.kind = "summary"
       /\ IsSentinel(lastOp.tool.response.cache_id)
       /\ lastOp.tool.response.summary.p_value = lastOp.run.result.p_value

(* C12: constructing the cache over an index file that is unreadable or whose
   content is not a cache index never fails, and leaves a usable object with an
   index. *)
C12_ConstructNeverFails ==
    lastOp.op = "__init__"
    => /\ lastOp.raises = ""
       /\ index[lastOp.h].up

(* C13: a test type that is not in the registry is answered, by
   run_hypothesis_test and by check_assumptions, with the unknown-test error and
   the list of the registered test types, whatever the dataset; no step of a
   strategy runs and the cache is left as it was. *)
C13_UnknownTestRejected ==
    [][(/\ lastOp'.op \in {"run_hypothesis_test", "check_assumptions"}
        /\ lastOp'.tool.test_type \notin TEST_REGISTRY)
       => /\ lastOp'.tool.response = UnknownTestResponse(TEST_REGISTRY)
          /\ lastOp'.run.steps = <<>>
          /\ UNCHANGED <<indexFile, files, dataFiles, index>>]_vars

(* C14: no call of a tool ends with an exception; each returns a response. *)
C14_NoExceptionEscapes ==
    lastOp.op \in Tools => lastOp.raises = ""

(* C15: after run completes with a cache manager attached, the cache_id of
   the TestResult is the identifier of an entry of the cache whose payload is
   the full structured result of that run (TestResult.to_dict), so that
   get_result(cache_id) returns it. *)
C15_CacheIdFindsFullResult ==
    (/\ Completed
     /\ lastOp.h # ""
     /\ lastOp.run.result.cache_id # NoId
     /\ ~IsSentinel(lastOp.run.result.cache_id))
    => LET found == get_result(World(lastOp.h), lastOp.run.result.cache_id, FALSE)
       IN  /\ found.found
           /\ found.result = to_dict(lastOp.run.result)

-----------------------------------------------------------------------------
(* Properties of the suggester *)

AdvisedBySuggester == lastOp.op = "TestSuggester.suggest_test"
Groups == lastOp.advice.data_groups
Chars == lastOp.advice.chars
Primary == lastOp.advice.suggestion.primary_test
Continuous == Chars.data_type = "continuous"
NormalOrAdequate == Chars.is_normal \/ Chars.sample_size_adequate

(* C16: for one group suggest_test returns exactly one of three tests:
   one_sample_t_test when the data is continuous and normal or adequately
   sized, wilcoxon_signed_rank when it is continuous, not normal and not
   adequately sized, sign_test when it is not continuous. *)
C16_OneSampleTable ==
    (AdvisedBySuggester /\ Len(Groups) = 1)
    => /\ lastOp.advice.raises = ""
       /\ Primary \in {"one_sample_t_test", "wilcoxon_signed_rank", "sign_test"}
       /\ Primary = "one_sample_t_test" <=> (Continuous /\ NormalOrAdequate)
       /\ Primary = "wilcoxon_signed_rank"
             <=> (Continuous /\ ~Chars.is_normal /\ ~Chars.sample_size_adequate)
       /\ Primary = "sign_test" <=> ~Continuous
       /\ Continuous <=> Chars.data_type \notin {"ordinal", "nominal"}

(* one group of nominal data: 300 values, 11 of them distinct *)
C16_Witness ==
    /\ AdvisedBySuggester
    /\ Len(Groups) = 1
    /\ Chars.data_type = "nominal"
    /\ Primary = "sign_test"

(* C17: two groups are paired exactly when they have the same length and
   that length is below 100; paired groups get paired_t_test when continuous
   and normal or adequately sized and wilcoxon_signed_rank otherwise;
   independent groups get two_sample_t_test when continuous and normal or
   adequately sized, with equal_var true when the variances are equal and false
   when not, and mann_whitney_u otherwise. *)
C17_TwoSampleTable ==
    (AdvisedBySuggester /\ Len(Groups) = 2)
    => /\ lastOp.advice.raises = ""
       /\ Chars.is_paired <=> (Groups[1].len = Groups[2].len /\ Groups[1].len < 100)
       /\ IF Chars.is_paired
          THEN IF Continuous /\ NormalOrAdequate
               THEN Primary = "paired_t_test"
               ELSE Primary = "wilcoxon_signed_rank"
          ELSE IF Continuous /\ NormalOrAdequate
               THEN /\ Primary = "two_sample_t_test"
                    /\ lastOp.advice.suggestion.parameters.equal_var
                          = IF Chars.equal_variances THEN "True" ELSE "False"
               ELSE Primary = "mann_whitney_u"

(* two groups of 100 values each, variances unequal: Welch's test *)
C17_Witness ==
    /\ AdvisedBySuggester
    /\ Len(Groups) = 2
    /\ Groups[1].len = 100 /\ Groups[2].len = 100
    /\ Primary = "two_sample_t_test"
    /\ lastOp.advice.suggestion.parameters.equal_var = "False"

(* C18: for three groups or more suggest_test returns one_way_anova, with a
   post-hoc suggestion, exactly when the data is continuous, normal or
   adequately sized, and of equal variances; kruskal_wallis otherwise. *)
C18_MultiSampleTable ==
    (AdvisedBySuggester /\ Len(Groups) >= 3)
    => /\ lastOp.advice.raises = ""
       /\ Primary \in {"one_way_anova", "kruskal_wallis"}
       /\ Primary = "one_way_anova"
             <=> (Continuous /\ NormalOrAdequate /\ Chars.equal_variances)
       /\ Primary = "one_way_anova" => lastOp.advice.suggestion.post_hoc # ""

(* three groups, continuous and adequately sized, variances unequal *)
C18_Witness ==
    /\ AdvisedBySuggester
    /\ Len(Groups) = 3
    /\ Continuous /\ NormalOrAdequate /\ ~Chars.equal_variances
    /\ Primary = "kruskal_wallis"

SameAsSuggested ==
    /\ suggested.asked
    /\ lastOp.advice.data_groups = suggested.data_groups
    /\ lastOp.advice.kwargs = suggested.kwargs
    /\ lastOp.advice.lib = suggested.lib

(* C19: a call of suggest_test with the data groups and parameters of an
   earlier call returns the primary_test the earlier call returned, whatever
   was run, cached, cleared or suggested in between. *)
C19_SuggestionDeterminism ==
    (lastOp.op = "suggest_test" /\ SameAsSuggested)
    => Primary = suggested.primary_test

(* the same question asked before and after a test was run and cached *)
C19_Witness ==
    /\ lastOp.op = "suggest_test"
    /\ SameAsSuggested
    /\ Primary = "one_sample_t_test"
    /\ suggested.cached = {}
    /\ DOMAIN index[cache_manager].entries # {}

(* C20: suggest_test leaves the cache as it was, the index and the files, and
   runs no test, whether it returns a suggestion or an error. *)
C20_SuggestLeavesCache ==
    [][lastOp'.op = "suggest_test"
       => /\ UNCHANGED <<index, indexFile, files, dataFiles>>
          /\ lastOp'.run = NoRun]_vars

(* suggest_test failed on a dataset while the cache held an entry *)
C20_Witness ==
    /\ lastOp.op = "suggest_test"
    /\ lastOp.tool.response.kind = "error"
    /\ DOMAIN index[cache_manager].entries # {}
    /\ DOMAIN files # {}

-----------------------------------------------------------------------------
(* C21: list_cached_tests returns one record for each entry of the index of
   the object and no other record, each with the test type, creation time and
   raw-data flag of its entry, ordered by creation time, the most recent
   first. *)
C21_ListMatchesIndex ==
    lastOp.op = "list_cached_tests"
    => LET tests == lastOp.tests
           entries == index[lastOp.h].entries
       IN  /\ Len(tests) = Cardinality(DOMAIN entries)
           /\ {tests[i].test_id : i \in DOMAIN tests} = DOMAIN entries
           /\ \A i \in DOMAIN tests :
                 /\ tests[i].test_type = entries[tests[i].test_id].test_type
                 /\ tests[i].created = entries[tests[i].test_id].created
                 /\ tests[i].has_raw_data = entries[tests[i].test_id].has_raw_data
           /\ \A i, j \in DOMAIN tests :
                 i < j => fromisoformat(tests[i].created) >= fromisoformat(tests[j].created)

(* two entries created at different hours are listed *)
C21_Witness ==
    /\ lastOp.op = "list_cached_tests"
    /\ Len(lastOp.tests) = 2
    /\ fromisoformat(lastOp.tests[1].created) > fromisoformat(lastOp.tests[2].created)

-----------------------------------------------------------------------------
(* The pipeline on its own: every strategy run once on each input, with the
   statistical library finding each combination of assumption outcomes *)

RecommendArguments ==
    {<<Sample(n, FALSE)>> : n \in {2, 7, 31, 5001}} \cup {<<Sample(7, TRUE)>>}
    \cup {<<Sample(n, FALSE), Sample(m, FALSE)>> :
            <<n, m>> \in {<<7, 7>>, <<31, 7>>, <<1, 1>>, <<2, 2>>}}
    \cup {<<Sample(7, FALSE), Sample(n, FALSE), Sample(7, FALSE)>> : n \in {1, 3, 7}}

ShapiroOutcomes ==
    {AllNormal, <<PyFloat(40), PyFloat(60), PyFloat(60)>>,
     <<PyFloat(60), PyFloat(40), PyFloat(60)>>, <<PyNaN, PyNaN, PyNaN>>}

RecommendLibraryOutcomes ==
    {[raises |-> "none", statistic |-> PyFloat(2096), p_value |-> PyFloat(p),
      shapiro_numpy |-> FALSE, shapiro |-> s, levene |-> PyFloat(l),
      zero_differences |-> z] :
        p \in {49, 50}, s \in ShapiroOutcomes, l \in {40, 60}, z \in {0, 3}}
    \cup {[raises |-> "compute_statistic", statistic |-> PyNaN, p_value |-> PyNaN,
           shapiro_numpy |-> FALSE, shapiro |-> AllNormal, levene |-> PyFloat(60),
           zero_differences |-> 0]}

(* The call of run that is about to be made *)
ToRun(test_type, alpha, args, lib) ==
    [NoOp EXCEPT !.op = "arguments",
                 !.run = [NoRun EXCEPT !.test_type = test_type, !.alpha = alpha,
                                       !.args = args],
                 !.advice = [NoAdvice EXCEPT !.lib = lib]]

(* test_instance.run(...) with no cache manager attached *)
RunAlone ==
    /\ lastOp.op = "arguments"
    /\ \E r \in {run(lastOp.run.test_type, lastOp.run.alpha, lastOp.run.args,
                     lastOp.advice.lib, FALSE, World(cache_manager), 1, now, "none")} :
          lastOp' = [lastOp EXCEPT !.op = "run",
                                   !.run = [test_type |-> lastOp.run.test_type,
                                            args |-> lastOp.run.args,
                                            alpha |-> lastOp.run.alpha,
                                            valid |-> r.valid, outcome |-> r.outcome,
                                            message |-> r.message, steps |-> r.steps,
                                            result |-> r.result]]
    /\ UNCHANGED <<now, indexFile, files, dataFiles, index, written, deleted, sweeps,
                   suggested>>

InitRecommend ==
    /\ now = 0
    /\ \E st \in InitialStorages :
          /\ st.indexFile.state = "absent"
          /\ indexFile = st.indexFile
          /\ files = st.files
    /\ dataFiles = {}
    /\ index = [h \in Handles |-> NotConstructed]
    /\ \E test_type \in TEST_REGISTRY, args \in RecommendArguments,
          lib \in RecommendLibraryOutcomes :
          lastOp = ToRun(test_type, PyFloat(50), args, lib)
    /\ suggested = NoneSuggested
    /\ written = {}
    /\ deleted = [h \in Handles |-> {}]
    /\ sweeps = [h \in Handles |-> 0]

NextRecommend == RunAlone

SpecRecommend == InitRecommend /\ [][NextRecommend]_vars

(* The sentences of a recommendation that are the warning of the unmet
   assumptions *)
WarningsIn(recommendation) ==
    {j \in DOMAIN recommendation : recommendation[j].text = "WARNING: Assumptions not met"}

(* C22: for every registered strategy and every successful run of the
   pipeline, the recommendation contains the warning that names the unmet
   assumptions and suggests a non-parametric alternative if and only if at
   least one assumption check returned false, and the names in the warning
   are exactly the names in the result's warnings. *)
C22_WarningIffUnmet ==
    (lastOp.op = "run" /\ lastOp.run.outcome = "ok")
    => LET r == lastOp.run.result
           failed == {i \in DOMAIN r.assumptions : ~r.assumptions[i].value}
           warned == WarningsIn(r.recommendation)
       IN  /\ lastOp.run.test_type \in TEST_REGISTRY
           /\ (warned # {}) <=> (failed # {})
           /\ r.warnings.none <=> (failed = {})
           /\ {r.warnings.names[k] : k \in DOMAIN r.warnings.names}
                = {r.assumptions[i].name : i \in failed}
           /\ Len(r.warnings.names) = Cardinality(failed)
           /\ \A j \in warned :
                 /\ r.recommendation[j].names = r.warnings.names
                 /\ j < Len(r.recommendation)
                 /\ r.recommendation[j + 1].text = "Consider non-parametric alternatives."

C22_Witness ==
    /\ lastOp.op = "run"
    /\ lastOp.run.outcome = "ok"
    /\ lastOp.run.test_type = "two_sample_t_test"
    /\ lastOp.run.result.warnings.names = <<"group2_normality", "equal_variances">>
    /\ WarningsIn(lastOp.run.result.recommendation) # {}

(* C23: when the statistic computation hits a degenerate numeric case (the
   library computes nan, as for zero variance), the run ends in a computation
   error: no TestResult carrying a decision is returned and no cache entry is
   written for it. *)
C23_DegenerateIsFatal ==
    /\ (lastOp.op = "run" /\ lastOp.run.outcome = "ok")
          => lastOp.run.result.statistic.str # "nan"
    /\ \A w \in written : w.payload.statistic.str # "nan"

-----------------------------------------------------------------------------
(* One process whose file system can fail: each operation meets one of the
   faults its handlers name (IOError / OSError), or none *)

NextFaults ==
    \/ Tick
    \/ Construct(cache_manager, SaveFaults)
    \/ CacheResult(cache_manager, {LegacyPayload}, {1}, {"summary"}, SaveFaults)
    \/ DeleteResult(cache_manager, DeleteFaults)
    \/ ClearAll(cache_manager, SaveFaults)
    \/ CleanupExpired(cache_manager, SaveFaults)

SpecFaults == InitRun /\ [][NextFaults]_vars

(* C24: after each completed cache_result, delete_result, clear_all or expiry
   sweep on a cache handle, the persisted index holds exactly the entries of
   the handle's in-memory index. *)
C24_IndexPersisted ==
    (/\ lastOp.op \in {"cache_result", "delete_result", "clear_all", "_cleanup_expired"}
     /\ lastOp.raises = "")
    => /\ indexFile.state = "ok"
       /\ indexFile.entries = index[lastOp.h].entries

(* C25: delete_result of an identifier in the index removes the index entry
   even when a backing file is missing or its removal fails; delete_result of
   an identifier not in the index changes neither the index nor any file;
   and calling it a second time changes nothing more. *)
C25_DeleteTotalOnIndex ==
    /\ [][lastOp'.op = "delete_result"
          => /\ lastOp'.id \notin DOMAIN index'[lastOp'.h].entries
             /\ lastOp'.id \notin DOMAIN index[lastOp'.h].entries
                   => UNCHANGED <<index, indexFile, files, dataFiles>>]_vars
    /\ [](\A h \in Handles :
             index[h].up =>
                \A test_id \in KnownIds(h), io1 \in DeleteFaults, io2 \in DeleteFaults :
                    delete_result(delete_result(World(h), test_id, io1), test_id, io2)
                      = delete_result(World(h), test_id, io1))

(* an entry deleted although the removal of its result file failed *)
C25_Witness ==
    /\ lastOp.op = "delete_result"
    /\ lastOp.id \in DOMAIN files
    /\ lastOp.id \in deleted[lastOp.h]
    /\ lastOp.id \notin DOMAIN index[lastOp.h].entries

(* C26: two DataCharacteristics that differ only in has_outliers get the same
   primary test, parameters and alternative tests from suggest_test. *)
C26_OutliersIgnored ==
    (AdvisedBySuggester /\ lastOp.advice.raises = "")
    => LET kwargs == lastOp.advice.kwargs
           lib == lastOp.advice.lib
           suggestion == lastOp.advice.suggestion
           flipped == [Chars EXCEPT !.has_outliers = ~@]
           again == IF flipped.n_groups = 1 THEN suggest_one_sample_test(flipped, kwargs)
                    ELSE IF flipped.n_groups = 2 THEN suggest_two_sample_test(flipped)
                    ELSE suggest_multi_sample_test(flipped)
           other == TestSuggester_suggest_test(Groups, kwargs, [lib EXCEPT !.outliers = ~@])
       IN  /\ other.chars = flipped
           /\ other.suggestion = again
           /\ again.primary_test = suggestion.primary_test
           /\ again.parameters = suggestion.parameters
           /\ again.alternative_tests = suggestion.alternative_tests

(* two normal groups with outliers, for which the t-test is still suggested *)
C26_Witness ==
    /\ AdvisedBySuggester
    /\ lastOp.advice.raises = ""
    /\ Chars.has_outliers
    /\ Chars.n_groups = 2
    /\ Primary = "two_sample_t_test"
    /\ lastOp.advice.suggestion.alternative_tests = <<"mann_whitney_u">>

(* C27: every primary test identifier suggest_test returns is a key of
   TEST_REGISTRY, so that run_hypothesis_test knows the suggested test. *)
C27_SuggestedIsRegistered ==
    (AdvisedBySuggester /\ lastOp.advice.raises = "") => Primary \in TEST_REGISTRY

(* C28: each successful run_hypothesis_test adds exactly one entry to the
   cache index, and the cache_id of the response is the cache_id recorded in
   the result stored under it. *)
C28_OneEntryPerRun ==
    [][(/\ lastOp'.op = "run_hypothesis_test"
        /\ lastOp' # lastOp
        /\ lastOp'.tool.response.kind = "summary"
        /\ lastOp'.tool.persisted = "ok")
       => LET h == lastOp'.h
              cache_id == lastOp'.tool.response.cache_id
          IN  /\ Cardinality(DOMAIN index'[h].entries)
                   = Cardinality(DOMAIN index[h].entries) + 1
              /\ cache_id \in DOMAIN index'[h].entries
              /\ cache_id \in DOMAIN files'
              /\ json_load(files'[cache_id].doc)["cache_id"] = PyId(cache_id)]_vars

(* C29: the identifier a successful cache_result generates is not one of the
   identifiers in the index, so that no entry is overwritten and every call
   adds an entry. *)
C29_FreshIdentifier ==
    [][(/\ lastOp'.op = "cache_result"
        /\ now' = now
        /\ ~IsSentinel(lastOp'.id))
       => /\ lastOp'.id \notin DOMAIN index[lastOp'.h].entries
          /\ Cardinality(DOMAIN index'[lastOp'.h].entries)
               = Cardinality(DOMAIN index[lastOp'.h].entries) + 1]_vars

(* C30: analyze_data never yields is_normal false together with
   sample_size_adequate true, so that "normal or adequately sized" is the
   same as "normal" in every branch of the suggester. *)
C30_AdequateImpliesNormal ==
    (AdvisedBySuggester /\ lastOp.advice.raises = "")
    => /\ ~(~Chars.is_normal /\ Chars.sample_size_adequate)
       /\ NormalOrAdequate <=> Chars.is_normal

(* normality rejected by a group of 20 to 29 values beside a group of 30 or
   more *)
C30_Witness ==
    /\ AdvisedBySuggester
    /\ lastOp.advice.raises = ""
    /\ ~Chars.is_normal
    /\ \A i \in DOMAIN Groups : Groups[i].len >= 20
    /\ \E i \in DOMAIN Groups : Groups[i].len >= 30

=============================================================================
